---- MODULE Spec2Model ----
(***************************************************************************)
(* A model of the hymnal extractor (gelsonmatavela/hoze):                  *)
(*   - StructureDetector.detect_structure (src/struture_detector.py), the  *)
(*     line classifier that builds songs, verses and choruses;             *)
(*   - TextCleaner.clean_musical_notation (src/text_cleaner.py), the       *)
(*     musical-notation filter, with the patterns of src/config/config.py; *)
(*   - BookExtractor.process_files (src/book_extrator.py), the per-file    *)
(*     pipeline that records one result for every PDF of the directory;    *)
(*   - the earlier detector of src/invoices.py, as a pure function.        *)
(* A text is a sequence of characters, a character a one-element string    *)
(* (characters outside ASCII carry their code point as their name), and    *)
(* the string operations and regular expressions of the source are         *)
(* computed character by character.                                        *)
(***************************************************************************)
EXTENDS Naturals, Integers, Sequences, FiniteSets, TLC

VARIABLES
    lines,          \* detect_structure: text.split('\n')
    i,              \* detect_structure: the main cursor (0-based, as in the source)
    current_song,   \* detect_structure: <<>> for None, <<song>> for an open song
    structure,      \* detect_structure: [title, songs]
    pc,             \* "loop" while the main loop runs, "done" after the return
    hist,           \* history: one entry [rule, at, to, open] per loop iteration
    ctext,          \* clean_musical_notation: the text of the two passes, <<t, clean(t)>>
    cpass,          \* clean_musical_notation: 1 = cleaning t, 2 = cleaning clean(t), 3 = both done
    clines,         \* clean_musical_notation: text.split('\n') of the current pass
    cpos,           \* clean_musical_notation: index of the next line of the for loop (0-based)
    cleaned_lines,  \* clean_musical_notation: the kept lines of the current pass
    removed_count,  \* clean_musical_notation: lines dropped by the density check
    chist,          \* history: one entry [pass, line, fate, out] per non-blank line
    files,          \* process_files: the list of PDF files of the directory
    fidx,           \* process_files: the position in files of the file in work (1-based)
    fpc,            \* process_files: the step to take next
    work,           \* the exporter's word_available, and songs_found and output_folder
                    \* of the file in work
    extracted_books,\* ReportGenerator.extracted_books: the recorded results
    report_data     \* _save_detailed_report: <<summary>>, <<>> while there is no report

detvars == <<lines, i, current_song, structure, pc, hist>>
clnvars == <<ctext, cpass, clines, cpos, cleaned_lines, removed_count, chist>>
flvars == <<files, fidx, fpc, work, extracted_books, report_data>>
vars == <<lines, i, current_song, structure, pc, hist,
          ctext, cpass, clines, cpos, cleaned_lines, removed_count, chist,
          files, fidx, fpc, work, extracted_books, report_data>>

(***************************************************************************)
(* Characters.                                                             *)
(***************************************************************************)
EMDASH == "U+2014"
OCIRC == "U+00D4"
oCIRC == "U+00F4"
aCIRC == "U+00E2"
ACIRC == "U+00C2"
EURO == "U+20AC"
RDQUO == "U+201D"
NL == "\n"

LowerSeq == <<"a","b","c","d","e","f","g","h","i","j","k","l","m","n","o","p","q","r","s","t","u","v","w","x","y","z",oCIRC,aCIRC>>
UpperSeq == <<"A","B","C","D","E","F","G","H","I","J","K","L","M","N","O","P","Q","R","S","T","U","V","W","X","Y","Z",OCIRC,ACIRC>>
DigitSeq == <<"0","1","2","3","4","5","6","7","8","9">>

Range(f) == {f[x] : x \in DOMAIN f}
AsciiLower == Range(SubSeq(LowerSeq, 1, 26))
AsciiUpper == Range(SubSeq(UpperSeq, 1, 26))
\* str.isupper / str.upper: the cased characters
Lower == Range(LowerSeq)
Upper == Range(UpperSeq)
Digit == Range(DigitSeq)
\* str.strip(), str.split() and the pattern \s
Whitespace == {" ", "\t", "\r", "\f", NL}

IsSpace(c) == c \in Whitespace
IsDigit(c) == c \in Digit

UpperMap == [c \in Lower |-> UpperSeq[CHOOSE k \in DOMAIN LowerSeq : LowerSeq[k] = c]]
LowerMap == [c \in Upper |-> LowerSeq[CHOOSE k \in DOMAIN UpperSeq : UpperSeq[k] = c]]

\* str.upper() on one character
UpperChar(c) == IF c \in Lower THEN UpperMap[c] ELSE c

\* str.lower() on one character (what re.IGNORECASE compares)
LowerChar(c) == IF c \in Upper THEN LowerMap[c] ELSE c

(***************************************************************************)
(* String operations of the source, on sequences of characters.            *)
(***************************************************************************)
ToUpper(s) == [p \in 1..Len(s) |-> UpperChar(s[p])]

\* how many characters of s from position p on (forwards) are in the set S
RECURSIVE SpanIn(_, _, _)
SpanIn(S, s, p) == IF p > Len(s) \/ s[p] \notin S THEN 0 ELSE 1 + SpanIn(S, s, p + 1)

\* how many characters of s from position p back (backwards) are in the set S
RECURSIVE SpanBack(_, _, _)
SpanBack(S, s, p) == IF p < 1 \/ s[p] \notin S THEN 0 ELSE 1 + SpanBack(S, s, p - 1)

\* number of leading / trailing whitespace characters
LeadSpaces(s) == SpanIn(Whitespace, s, 1)
TrailSpaces(s) == SpanBack(Whitespace, s, Len(s))

\* str.strip()
Strip(s) ==
    LET a == LeadSpaces(s)
    IN  IF a = Len(s) THEN <<>> ELSE SubSeq(s, a + 1, Len(s) - TrailSpaces(s))

\* the start positions of the words of str.split()
WordStarts(s) == {p \in 1..Len(s) : ~IsSpace(s[p]) /\ (p = 1 \/ IsSpace(s[p-1]))}

\* len(str.split())
WordCount(s) == Cardinality(WordStarts(s))

\* str.isupper(): some cased character, and no lowercase one
IsUpperStr(s) ==
    /\ \E p \in 1..Len(s) : s[p] \in Upper
    /\ \A p \in 1..Len(s) : s[p] \notin Lower

\* `kw in s`
Contains(s, kw) ==
    \E p \in 1..(Len(s) - Len(kw) + 1) : \A q \in 1..Len(kw) : s[p + q - 1] = kw[q]

\* str.split('\n')
RECURSIVE SplitNL(_)
SplitNL(text) ==
    IF \A p \in 1..Len(text) : text[p] # NL THEN <<text>>
    ELSE LET p == CHOOSE p \in 1..Len(text) :
                      text[p] = NL /\ \A q \in 1..(p-1) : text[q] # NL
         IN  <<SubSeq(text, 1, p - 1)>> \o SplitNL(SubSeq(text, p + 1, Len(text)))

\* sep.join(parts)
RECURSIVE Join(_, _)
Join(sep, parts) ==
    IF parts = <<>> THEN <<>>
    ELSE IF Len(parts) = 1 THEN parts[1]
    ELSE parts[1] \o sep \o Join(sep, Tail(parts))

\* str(n) for n >= 0
RECURSIVE Str(_)
Str(n) ==
    IF n < 10 THEN <<DigitSeq[n + 1]>>
    ELSE Str(n \div 10) \o <<DigitSeq[(n % 10) + 1]>>

\* number of leading digits: the span of ^\d+
DigitPrefix(s) == SpanIn(Digit, s, 1)

\* re.match(r'^\d+', s)
StartsDigit(s) == DigitPrefix(s) >= 1

\* re.match(r'^\d+\s', s)
LeadNum(s) ==
    LET d == DigitPrefix(s)
    IN  d >= 1 /\ Len(s) > d /\ IsSpace(s[d + 1])

\* the whitespace run that follows the leading digits
SpaceRun(s) == SpanIn(Whitespace, s, DigitPrefix(s) + 1)

\* re.match(r'^(\d+)\s+(.+)', s): \s+ is greedy and gives one character back when
\* nothing else is left for (.+)
NumMatch(s) ==
    /\ LeadNum(s)
    /\ (DigitPrefix(s) + SpaceRun(s) < Len(s) \/ SpaceRun(s) >= 2)

Group1(s) == SubSeq(s, 1, DigitPrefix(s))

Group2(s) ==
    LET e == DigitPrefix(s) + SpaceRun(s)
    IN  IF e < Len(s) THEN SubSeq(s, e + 1, Len(s)) ELSE SubSeq(s, Len(s), Len(s))

(***************************************************************************)
(* Configuration (src/config/config.py).                                   *)
(***************************************************************************)
MAX_VERSE_LINES == 6
MAX_CHORUS_LINES == 30
CHORUS_KEYWORDS == {<<"C","H","O","R","U","S">>, <<"C","O","R","O">>,
                    <<"R","E","F","R","A","I","N">>, <<"C",OCIRC,"R","O">>}

(***************************************************************************)
(* StructureDetector (src/struture_detector.py).                           *)
(***************************************************************************)
None == <<>>
LineAt(ls, j) == ls[j + 1]

\* _is_chorus_line
IsChorusLine(line) == \E kw \in CHORUS_KEYWORDS : Contains(ToUpper(line), kw)

\* _is_song_title: the count of numbered lines among lines[i .. min(i+5, len)-1]
NumberedSequence(ls, k) ==
    Cardinality({j \in k..(IF k + 5 < Len(ls) THEN k + 5 ELSE Len(ls)) - 1 :
                    LeadNum(Strip(LineAt(ls, j)))})

\* IsSongTitle with a fault seeded: the test of the next line is left out
IsSongTitle_CountOnly(ls, k) ==
    ~ (NumberedSequence(ls, k) >= 3)

\* _is_song_title
IsSongTitle(ls, k) ==
    ~ ( /\ k + 1 < Len(ls)
        /\ LeadNum(Strip(LineAt(ls, k + 1)))
        /\ NumberedSequence(ls, k) >= 3 )

\* detect_structure: the header test of the main loop
IsSongHeader(ls, k) ==
    LET line == Strip(LineAt(ls, k))
    IN  NumMatch(line) /\ Len(Group2(line)) > 3 /\ IsSongTitle(ls, k)

\* _create_new_song: the new song
NewSong(line) ==
    [number |-> Group1(line), title |-> Strip(Group2(line)), verses |-> <<>>, chorus |-> <<>>]

\* SavePrevious with a fault seeded: the previous song replaces the last song of the list
SavePrevious_Replaces(songs, cur) ==
    IF cur # None
    THEN (IF songs = <<>> THEN <<>> ELSE SubSeq(songs, 1, Len(songs) - 1)) \o <<cur[1]>>
    ELSE songs

\* SavePrevious with a fault seeded: the previous song is appended twice
SavePrevious_Twice(songs, cur) == IF cur # None THEN songs \o <<cur[1], cur[1]>> ELSE songs

\* _create_new_song: structure['songs'] after saving the previous song
SavePrevious(songs, cur) == IF cur # None THEN Append(songs, cur[1]) ELSE songs

\* IsMainTitle with a fault seeded: the test `not structure['title']` is left out
IsMainTitle_IgnoresTitle(line, struct, cur) ==
    IsUpperStr(line) /\ Len(line) > 10 /\ cur = None

\* _is_main_title
IsMainTitle(line, struct, cur) ==
    IsUpperStr(line) /\ Len(line) > 10 /\ struct.title = <<>> /\ cur = None

\* ChorusLoop with a fault seeded: a numbered line no longer stops the collection
RECURSIVE ChorusLoop_NoNumberStop(_, _, _, _)
ChorusLoop_NoNumberStop(ls, k, j, acc) ==
    IF ~(j < Len(ls) /\ j < k + MAX_CHORUS_LINES) THEN <<acc, j>>
    ELSE LET chorus_line == Strip(LineAt(ls, j))
         IN  IF chorus_line = <<>> THEN ChorusLoop_NoNumberStop(ls, k, j + 1, acc)
             ELSE IF IsChorusLine(chorus_line) THEN <<acc, j>>
             ELSE ChorusLoop_NoNumberStop(ls, k, j + 1, Append(acc, chorus_line))

\* _extract_chorus: the while loop, from (chorus_lines, j); returns <<chorus_lines, j>>
RECURSIVE ChorusLoop(_, _, _, _)
ChorusLoop(ls, k, j, acc) ==
    IF ~(j < Len(ls) /\ j < k + MAX_CHORUS_LINES) THEN <<acc, j>>
    ELSE LET chorus_line == Strip(LineAt(ls, j))
         IN  IF chorus_line = <<>> THEN ChorusLoop(ls, k, j + 1, acc)
             ELSE IF LeadNum(chorus_line) /\ WordCount(chorus_line) > 3 THEN <<acc, j>>
             ELSE IF IsChorusLine(chorus_line) THEN <<acc, j>>
             ELSE ChorusLoop(ls, k, j + 1, Append(acc, chorus_line))

\* _extract_chorus
ExtractChorus(ls, k) == ChorusLoop(ls, k, k + 1, <<>>)

\* NumberedLoop with a fault seeded: a numbered line no longer stops the collection
RECURSIVE NumberedLoop_NoNumberStop(_, _, _)
NumberedLoop_NoNumberStop(ls, j, acc) ==
    IF ~(j < Len(ls) /\ Len(acc) < MAX_VERSE_LINES) THEN <<acc, j>>
    ELSE LET next_line == Strip(LineAt(ls, j))
         IN  IF next_line = <<>> THEN NumberedLoop_NoNumberStop(ls, j + 1, acc)
             ELSE IF IsChorusLine(next_line) THEN <<acc, j>>
             ELSE NumberedLoop_NoNumberStop(ls, j + 1, Append(acc, next_line))

\* NumberedLoop with a fault seeded: the cap is tested with <= instead of <
RECURSIVE NumberedLoop_CapOffByOne(_, _, _)
NumberedLoop_CapOffByOne(ls, j, acc) ==
    IF ~(j < Len(ls) /\ Len(acc) <= MAX_VERSE_LINES) THEN <<acc, j>>
    ELSE LET next_line == Strip(LineAt(ls, j))
         IN  IF next_line = <<>> THEN NumberedLoop_CapOffByOne(ls, j + 1, acc)
             ELSE IF LeadNum(next_line) THEN <<acc, j>>
             ELSE IF IsChorusLine(next_line) THEN <<acc, j>>
             ELSE NumberedLoop_CapOffByOne(ls, j + 1, Append(acc, next_line))

\* _extract_numbered_verse: the while loop; returns <<verse_lines, j>>
RECURSIVE NumberedLoop(_, _, _)
NumberedLoop(ls, j, acc) ==
    IF ~(j < Len(ls) /\ Len(acc) < MAX_VERSE_LINES) THEN <<acc, j>>
    ELSE LET next_line == Strip(LineAt(ls, j))
         IN  IF next_line = <<>> THEN NumberedLoop(ls, j + 1, acc)
             ELSE IF LeadNum(next_line) THEN <<acc, j>>
             ELSE IF IsChorusLine(next_line) THEN <<acc, j>>
             ELSE NumberedLoop(ls, j + 1, Append(acc, next_line))

\* ExtractNumberedVerse with a fault seeded: `return None, i` when no verse is emitted
ExtractNumberedVerse_NoAdvance(ls, k) ==
    LET line == Strip(LineAt(ls, k))
        verse_num == Group1(line)
        verse_text == Group2(line)
        r == NumberedLoop(ls, k + 1, <<verse_text>>)
    IN  IF WordCount(verse_text) <= 15 /\ Len(Strip(Join(<<" ">>, r[1]))) > 10
        THEN << <<[number |-> verse_num, lines |-> r[1]]>>, r[2] >>
        ELSE << <<>>, k >>

\* ExtractNumberedVerse with a fault seeded: `return verse_data, i + 1` when a verse is
\* emitted, so the collected lines are read again
ExtractNumberedVerse_EmitNoSkip(ls, k) ==
    LET line == Strip(LineAt(ls, k))
        verse_num == Group1(line)
        verse_text == Group2(line)
        r == NumberedLoop(ls, k + 1, <<verse_text>>)
    IN  IF WordCount(verse_text) <= 15 /\ Len(Strip(Join(<<" ">>, r[1]))) > 10
        THEN << <<[number |-> verse_num, lines |-> r[1]]>>, k + 1 >>
        ELSE << <<>>, k + 1 >>

\* _extract_numbered_verse: returns <<verse_data, next_i>>, verse_data <<>> for None
ExtractNumberedVerse(ls, k) ==
    LET line == Strip(LineAt(ls, k))
        verse_num == Group1(line)
        verse_text == Group2(line)
        r == NumberedLoop(ls, k + 1, <<verse_text>>)
    IN  IF WordCount(verse_text) <= 15 /\ Len(Strip(Join(<<" ">>, r[1]))) > 10
        THEN << <<[number |-> verse_num, lines |-> r[1]]>>, r[2] >>
        ELSE << <<>>, k + 1 >>

\* _is_potential_verse
IsPotentialVerse(line) ==
    Len(line) > 5 /\ ~StartsDigit(line) /\ WordCount(line) > 1 /\ ~IsUpperStr(line)

\* UnnumberedLoop with a fault seeded: the cap is 5 lines instead of 4
RECURSIVE UnnumberedLoop_CapFive(_, _, _)
UnnumberedLoop_CapFive(ls, j, acc) ==
    IF ~(j < Len(ls) /\ Len(acc) < 5) THEN <<acc, j>>
    ELSE LET next_line == Strip(LineAt(ls, j))
         IN  IF next_line = <<>> THEN UnnumberedLoop_CapFive(ls, j + 1, acc)
             ELSE IF LeadNum(next_line) /\ WordCount(next_line) > 3 THEN <<acc, j>>
             ELSE IF IsChorusLine(next_line) THEN <<acc, j>>
             ELSE UnnumberedLoop_CapFive(ls, j + 1, Append(acc, next_line))

\* _extract_unnumbered_verse: the while loop; returns <<verse_lines, j>>
RECURSIVE UnnumberedLoop(_, _, _)
UnnumberedLoop(ls, j, acc) ==
    IF ~(j < Len(ls) /\ Len(acc) < 4) THEN <<acc, j>>
    ELSE LET next_line == Strip(LineAt(ls, j))
         IN  IF next_line = <<>> THEN UnnumberedLoop(ls, j + 1, acc)
             ELSE IF LeadNum(next_line) /\ WordCount(next_line) > 3 THEN <<acc, j>>
             ELSE IF IsChorusLine(next_line) THEN <<acc, j>>
             ELSE UnnumberedLoop(ls, j + 1, Append(acc, next_line))

\* ExtractUnnumberedVerse with a fault seeded: the length test is left out
ExtractUnnumberedVerse_AlwaysEmits(ls, k, song) ==
    LET r == UnnumberedLoop(ls, k + 1, <<Strip(LineAt(ls, k))>>)
    IN  << <<[number |-> Str(Len(song.verses) + 1), lines |-> r[1]]>>, r[2] >>

\* ExtractUnnumberedVerse with a fault seeded: the number is the count of earlier verses
ExtractUnnumberedVerse_ZeroBased(ls, k, song) ==
    LET r == UnnumberedLoop(ls, k + 1, <<Strip(LineAt(ls, k))>>)
    IN  IF Len(song.verses) = 0 \/ Len(Join(<<" ">>, r[1])) > 15
        THEN << <<[number |-> Str(Len(song.verses)), lines |-> r[1]]>>, r[2] >>
        ELSE << <<>>, r[2] >>

\* ExtractUnnumberedVerse with a fault seeded: `return None, i + 1` for a rejected block
ExtractUnnumberedVerse_RejectNoSkip(ls, k, song) ==
    LET r == UnnumberedLoop(ls, k + 1, <<Strip(LineAt(ls, k))>>)
    IN  IF Len(song.verses) = 0 \/ Len(Join(<<" ">>, r[1])) > 15
        THEN << <<[number |-> Str(Len(song.verses) + 1), lines |-> r[1]]>>, r[2] >>
        ELSE << <<>>, k + 1 >>

\* _extract_unnumbered_verse: returns <<verse_data, next_i>>, verse_data <<>> for None
ExtractUnnumberedVerse(ls, k, song) ==
    LET r == UnnumberedLoop(ls, k + 1, <<Strip(LineAt(ls, k))>>)
    IN  IF Len(song.verses) = 0 \/ Len(Join(<<" ">>, r[1])) > 15
        THEN << <<[number |-> Str(Len(song.verses) + 1), lines |-> r[1]]>>, r[2] >>
        ELSE << <<>>, r[2] >>

\* FilterValidSongs with a fault seeded: nothing is filtered out
FilterValidSongs_KeepAll(songs) == songs

\* _filter_valid_songs
RECURSIVE FilterValidSongs(_)
FilterValidSongs(songs) ==
    IF songs = <<>> THEN <<>>
    ELSE IF songs[1].verses # <<>> \/ songs[1].chorus # <<>>
         THEN <<songs[1]>> \o FilterValidSongs(Tail(songs))
         ELSE FilterValidSongs(Tail(songs))

\* WithVerse with a fault seeded: current_song = verse_data when no verse is emitted
WithVerse_DropsSong(cur, verse_data) ==
    IF verse_data = <<>> THEN None
    ELSE <<[cur[1] EXCEPT !.verses = Append(@, verse_data[1])]>>

\* current_song['verses'].append(verse_data) when verse_data is not None
WithVerse(cur, verse_data) ==
    IF verse_data = <<>> THEN cur
    ELSE <<[cur[1] EXCEPT !.verses = Append(@, verse_data[1])]>>

\* WithChorus with a fault seeded: the collected lines are appended to the chorus
WithChorus_Appends(cur, chorus_lines) ==
    <<[cur[1] EXCEPT !.chorus = @ \o chorus_lines]>>

\* current_song['chorus'] = chorus_lines
WithChorus(cur, chorus_lines) ==
    <<[cur[1] EXCEPT !.chorus = chorus_lines]>>

\* the line under the cursor: lines[i].strip()
CurLine == Strip(LineAt(lines, i))
InLoop == pc = "loop" /\ i < Len(lines)
Log(rule, to) == hist' = Append(hist, [rule |-> rule, at |-> i, to |-> to, open |-> current_song # None])

\* Classify with a fault seeded: the chorus rule is tried before the header rule
Classify_ChorusFirst(ls, k, cur, struct) ==
    LET line == Strip(LineAt(ls, k))
    IN  IF line = <<>> THEN "blank"
        ELSE IF IsChorusLine(line) /\ cur # None THEN "chorus"
        ELSE IF IsSongHeader(ls, k) THEN "header"
        ELSE IF IsMainTitle(line, struct, cur) THEN "title"
        ELSE IF NumMatch(line) /\ cur # None THEN "numbered"
        ELSE IF cur # None /\ IsPotentialVerse(line) THEN "unnumbered"
        ELSE "fallback"

\* detect_structure: the rule of the main loop that takes line k, the first that
\* matches in the order of the source
Classify(ls, k, cur, struct) ==
    LET line == Strip(LineAt(ls, k))
    IN  IF line = <<>> THEN "blank"
        ELSE IF IsSongHeader(ls, k) THEN "header"
        ELSE IF IsMainTitle(line, struct, cur) THEN "title"
        ELSE IF IsChorusLine(line) /\ cur # None THEN "chorus"
        ELSE IF NumMatch(line) /\ cur # None THEN "numbered"
        ELSE IF cur # None /\ IsPotentialVerse(line) THEN "unnumbered"
        ELSE "fallback"

Rule == Classify(lines, i, current_song, structure)

\* detect_structure, one iteration of the main loop per action
SkipBlank ==
    /\ InLoop /\ Rule = "blank"
    /\ i' = i + 1
    /\ Log("blank", i + 1)
    /\ UNCHANGED <<lines, current_song, structure, pc>>
    /\ UNCHANGED clnvars
    /\ UNCHANGED flvars

SongHeader ==
    /\ InLoop /\ Rule = "header"
    /\ structure' = [structure EXCEPT !.songs = SavePrevious(@, current_song)]
    /\ current_song' = <<NewSong(CurLine)>>
    /\ i' = i + 1
    /\ Log("header", i + 1)
    /\ UNCHANGED <<lines, pc>>
    /\ UNCHANGED clnvars
    /\ UNCHANGED flvars

MainTitle ==
    /\ InLoop /\ Rule = "title"
    /\ structure' = [structure EXCEPT !.title = CurLine]
    /\ i' = i + 1
    /\ Log("title", i + 1)
    /\ UNCHANGED <<lines, current_song, pc>>
    /\ UNCHANGED clnvars
    /\ UNCHANGED flvars

Chorus ==
    /\ InLoop /\ Rule = "chorus"
    /\ LET r == ExtractChorus(lines, i)
       IN  /\ current_song' = WithChorus(current_song, r[1])
           /\ i' = r[2]
           /\ Log("chorus", r[2])
    /\ UNCHANGED <<lines, structure, pc>>
    /\ UNCHANGED clnvars
    /\ UNCHANGED flvars

NumberedVerse ==
    /\ InLoop /\ Rule = "numbered"
    /\ LET r == ExtractNumberedVerse(lines, i)
       IN  /\ current_song' = WithVerse(current_song, r[1])
           /\ i' = r[2]
           /\ Log("numbered", r[2])
    /\ UNCHANGED <<lines, structure, pc>>
    /\ UNCHANGED clnvars
    /\ UNCHANGED flvars

UnnumberedVerse ==
    /\ InLoop /\ Rule = "unnumbered"
    /\ LET r == ExtractUnnumberedVerse(lines, i, current_song[1])
       IN  /\ current_song' = WithVerse(current_song, r[1])
           /\ i' = r[2]
           /\ Log("unnumbered", r[2])
    /\ UNCHANGED <<lines, structure, pc>>
    /\ UNCHANGED clnvars
    /\ UNCHANGED flvars

Fallback ==
    /\ InLoop /\ Rule = "fallback"
    /\ i' = i + 1
    /\ Log("fallback", i + 1)
    /\ UNCHANGED <<lines, current_song, structure, pc>>
    /\ UNCHANGED clnvars
    /\ UNCHANGED flvars

\* detect_structure after the loop: add the last song, filter, return
Finish ==
    /\ pc = "loop" /\ ~(i < Len(lines))
    /\ structure' = [structure EXCEPT
                        !.songs = FilterValidSongs(SavePrevious(@, current_song))]
    /\ pc' = "done"
    /\ UNCHANGED <<lines, i, current_song, hist>>
    /\ UNCHANGED clnvars
    /\ UNCHANGED flvars

(***************************************************************************)
(* BookExtractor.detect_structure (src/invoices.py), the detector of the   *)
(* single-file program, as a function of the text.                         *)
(***************************************************************************)
LegacyChorusKeywords == {<<"C","H","O","R","U","S">>, <<"C","O","R","O">>,
                         <<"R","E","F","R","A","I","N">>, <<"C",OCIRC,"R","O">>}

\* any(keyword in line.upper() for keyword in chorus_keywords)
LegacyIsChorusLine(line) == \E kw \in LegacyChorusKeywords : Contains(ToUpper(line), kw)

\* is_title: false when the next line is numbered and 3 or more of lines[i .. i+4] are
LegacyIsTitle(ls, k) ==
    ~ ( /\ k + 1 < Len(ls)
        /\ LeadNum(Strip(LineAt(ls, k + 1)))
        /\ Cardinality({j \in k..(IF k + 5 < Len(ls) THEN k + 5 ELSE Len(ls)) - 1 :
                            LeadNum(Strip(LineAt(ls, j)))}) >= 3 )

\* the while loop of the chorus rule: it stops at every numbered line
RECURSIVE LegacyChorusLoop(_, _, _, _)
LegacyChorusLoop(ls, k, j, acc) ==
    IF ~(j < Len(ls) /\ j < k + 30) THEN <<acc, j>>
    ELSE LET chorus_line == Strip(LineAt(ls, j))
         IN  IF chorus_line = <<>> THEN LegacyChorusLoop(ls, k, j + 1, acc)
             ELSE IF LeadNum(chorus_line) THEN <<acc, j>>
             ELSE IF LegacyIsChorusLine(chorus_line) THEN <<acc, j>>
             ELSE LegacyChorusLoop(ls, k, j + 1, Append(acc, chorus_line))

\* the while loop of the numbered-verse rule
RECURSIVE LegacyNumberedLoop(_, _, _)
LegacyNumberedLoop(ls, j, acc) ==
    IF ~(j < Len(ls) /\ Len(acc) < 6) THEN <<acc, j>>
    ELSE LET next_line == Strip(LineAt(ls, j))
         IN  IF next_line = <<>> THEN LegacyNumberedLoop(ls, j + 1, acc)
             ELSE IF LeadNum(next_line) THEN <<acc, j>>
             ELSE IF LegacyIsChorusLine(next_line) THEN <<acc, j>>
             ELSE LegacyNumberedLoop(ls, j + 1, Append(acc, next_line))

\* the while loop of the unnumbered-verse rule
RECURSIVE LegacyUnnumberedLoop(_, _, _)
LegacyUnnumberedLoop(ls, j, acc) ==
    IF ~(j < Len(ls) /\ Len(acc) < 4) THEN <<acc, j>>
    ELSE LET next_line == Strip(LineAt(ls, j))
         IN  IF next_line = <<>> THEN LegacyUnnumberedLoop(ls, j + 1, acc)
             ELSE IF LeadNum(next_line) /\ WordCount(next_line) > 3 THEN <<acc, j>>
             ELSE IF LegacyIsChorusLine(next_line) THEN <<acc, j>>
             ELSE LegacyUnnumberedLoop(ls, j + 1, Append(acc, next_line))

\* the main loop from cursor k on, with the open song cur (<<>> for None) and the
\* document struct; returns <<current_song, structure>> as they are after the loop
RECURSIVE LegacyLoop(_, _, _, _)
LegacyLoop(ls, k, cur, struct) ==
    IF ~(k < Len(ls)) THEN <<cur, struct>>
    ELSE
    LET line == Strip(LineAt(ls, k))
    IN  IF line = <<>> THEN LegacyLoop(ls, k + 1, cur, struct)
        ELSE IF NumMatch(line) /\ Len(Group2(line)) > 3 /\ LegacyIsTitle(ls, k)
        THEN LegacyLoop(ls, k + 1,
                        <<[number |-> Group1(line), title |-> Strip(Group2(line)),
                           verses |-> <<>>, chorus |-> <<>>]>>,
                        [struct EXCEPT !.songs = IF cur # None THEN Append(@, cur[1]) ELSE @])
        ELSE IF IsUpperStr(line) /\ Len(line) > 10 /\ struct.title = <<>> /\ cur = None
        THEN LegacyLoop(ls, k + 1, cur, [struct EXCEPT !.title = line])
        ELSE IF LegacyIsChorusLine(line) /\ cur # None
        THEN LET r == LegacyChorusLoop(ls, k, k + 1, <<>>)
             IN  LegacyLoop(ls, r[2], <<[cur[1] EXCEPT !.chorus = r[1]]>>, struct)
        ELSE IF NumMatch(line) /\ cur # None /\ WordCount(Group2(line)) <= 15
        THEN LET r == LegacyNumberedLoop(ls, k + 1, <<Group2(line)>>)
             IN  LegacyLoop(ls, r[2],
                            IF Len(Strip(Join(<<" ">>, r[1]))) > 10
                            THEN <<[cur[1] EXCEPT !.verses =
                                      Append(@, [number |-> Group1(line), lines |-> r[1]])]>>
                            ELSE cur,
                            struct)
        ELSE IF cur # None /\ Len(line) > 5 /\ ~StartsDigit(line)
                /\ WordCount(line) > 1 /\ ~IsUpperStr(line)
        THEN LET r == LegacyUnnumberedLoop(ls, k + 1, <<line>>)
             IN  LegacyLoop(ls, r[2],
                            IF Len(cur[1].verses) = 0 \/ Len(Join(<<" ">>, r[1])) > 15
                            THEN <<[cur[1] EXCEPT !.verses =
                                      Append(@, [number |-> Str(Len(cur[1].verses) + 1),
                                                 lines |-> r[1]])]>>
                            ELSE cur,
                            struct)
        ELSE LegacyLoop(ls, k + 1, cur, struct)

\* valid_songs: the songs with a verse or a chorus
LegacyValidSongs(songs) ==
    SelectSeq(songs, LAMBDA song : song.verses # <<>> \/ song.chorus # <<>>)

\* detect_structure(text): the title and the songs of the returned structure
LegacyDetect(text) ==
    LET r == LegacyLoop(SplitNL(text), 0, None, [title |-> <<>>, songs |-> <<>>])
        songs == IF r[1] # None THEN Append(r[2].songs, r[1][1]) ELSE r[2].songs
    IN  [title |-> r[2].title, songs |-> LegacyValidSongs(songs)]


(***************************************************************************)
(* Regular expressions (Python's re, as src/text_cleaner.py uses it): a    *)
(* pattern is a sequence of items, each a greedy repetition of a character *)
(* class or an assertion; matching backtracks as re does, longest          *)
(* repetition first.  Classes are written in lower case and compared       *)
(* under re.IGNORECASE.                                                    *)
(***************************************************************************)
Plus(cls) == [kind |-> "cls", cls |-> cls, min |-> 1, unbounded |-> TRUE]
Star(cls) == [kind |-> "cls", cls |-> cls, min |-> 0, unbounded |-> TRUE]
One(cls) == [kind |-> "cls", cls |-> cls, min |-> 1, unbounded |-> FALSE]
AtLeast(cls, n) == [kind |-> "cls", cls |-> cls, min |-> n, unbounded |-> TRUE]
AnyStar == [kind |-> "any", cls |-> {}, min |-> 0, unbounded |-> TRUE]
Bol == [kind |-> "bol"]
Eol == [kind |-> "eol"]
WordBoundary == [kind |-> "wb"]

\* \w
IsWordChar(c) == c \in Lower \cup Upper \cup Digit \cup {"_"}

\* one character against an item's class, ignoring case; `.` takes all but the newline
InClass(item, c) ==
    IF item.kind = "any" THEN c # NL ELSE LowerChar(c) \in item.cls

\* how many characters from position p on are in the item's class
RECURSIVE RunLength(_, _, _)
RunLength(item, s, p) ==
    IF p > Len(s) \/ ~InClass(item, s[p]) THEN 0 ELSE 1 + RunLength(item, s, p + 1)

\* \b at position p (between s[p-1] and s[p])
AtWordBoundary(s, p) ==
    (p > 1 /\ IsWordChar(s[p - 1])) # (p <= Len(s) /\ IsWordChar(s[p]))

\* items k.. of pat matched at position p of s: the position after the match, 0 for none
RECURSIVE MatchFrom(_, _, _, _)
RECURSIVE TryCount(_, _, _, _, _)
MatchFrom(pat, k, s, p) ==
    IF k > Len(pat) THEN p
    ELSE IF pat[k].kind = "bol" THEN (IF p = 1 THEN MatchFrom(pat, k + 1, s, p) ELSE 0)
    ELSE IF pat[k].kind = "eol"
         THEN (IF p = Len(s) + 1 \/ (p = Len(s) /\ s[p] = NL)
               THEN MatchFrom(pat, k + 1, s, p) ELSE 0)
    ELSE IF pat[k].kind = "wb"
         THEN (IF AtWordBoundary(s, p) THEN MatchFrom(pat, k + 1, s, p) ELSE 0)
    ELSE LET run == RunLength(pat[k], s, p)
         IN  TryCount(pat, k, s, p, IF pat[k].unbounded \/ run < pat[k].min THEN run ELSE pat[k].min)

TryCount(pat, k, s, p, c) ==
    IF c < pat[k].min THEN 0
    ELSE LET r == MatchFrom(pat, k + 1, s, p + c)
         IN  IF r # 0 THEN r ELSE TryCount(pat, k, s, p, c - 1)

\* re.sub(pat, '', s): leftmost matches, left to right, removed
RECURSIVE SubFrom(_, _, _)
SubFrom(pat, s, p) ==
    IF p > Len(s) THEN <<>>
    ELSE LET e == MatchFrom(pat, 1, s, p)
         IN  IF e > p THEN SubFrom(pat, s, e)
             ELSE <<s[p]>> \o SubFrom(pat, s, p + 1)

ReSub(pat, s) == SubFrom(pat, s, 1)

\* re.search(pat, s)
ReSearch(pat, s) == \E p \in 1..(Len(s) + 1) : MatchFrom(pat, 1, s, p) # 0

(***************************************************************************)
(* MUSICAL_PATTERNS and MUSICAL_CHAR_THRESHOLD (src/config/config.py).     *)
(***************************************************************************)
Punct == {":", "-", EMDASH, "."}
Quotes == {",", "'"}
Smtdfrl == {"s", "m", "t", "d", "f", "r", "l"}
Drmfslti == {"d", "r", "m", "f", "s", "l", "t", "i"}

MUSICAL_PATTERNS == <<
    <<Plus({":"}), Plus({"-", EMDASH, ".", ":"}), Star({"|"})>>,
    <<Plus(Smtdfrl), Star(Quotes), Star(Whitespace), Plus(Punct), Star(Whitespace),
      Star(Smtdfrl \cup Quotes)>>,
    <<Plus({"|"}), Star(Whitespace), Plus(Punct), Star(Whitespace), Star({"|"})>>,
    <<Bol, Plus({"s", "d", ",", "'", ":", "-", EMDASH, "|", "."} \cup Whitespace), Eol>>,
    <<Plus(Drmfslti), Star(Quotes), Star(Whitespace), Plus(Punct), Star(Whitespace),
      Star(Drmfslti \cup Quotes)>>,
    <<WordBoundary, One(AsciiLower), Plus(Quotes), Star(Whitespace), Plus(Punct)>>,
    <<AtLeast(Punct, 3)>>,
    <<Bol, Plus({"|"}), AnyStar, Plus({"|"}), Eol>>,
    <<Bol, Star(Whitespace), Plus(Punct), Star(Whitespace), Eol>>,
    <<WordBoundary, Plus(Smtdfrl), Star(Quotes), Plus(Punct), Star(Smtdfrl \cup Quotes),
      WordBoundary>>
>>

\* MUSICAL_CHAR_THRESHOLD = 0.6, as the fraction 3/5
THRESHOLD_NUM == 3
THRESHOLD_DEN == 5

(***************************************************************************)
(* TextCleaner (src/text_cleaner.py).                                      *)
(***************************************************************************)
\* _is_musical_notation: the character class of re.findall, as the file spells it
\* (case-sensitive; the three characters after the hyphen are U+00E2 U+20AC U+201D)
MusicalClass ==
    {":", "-", aCIRC, EURO, RDQUO, ".", "|", ",", "'", "s", "m", "d", "f", "t", "l", "r", "i"}

\* len(re.findall(class, line))
MusicalChars(line) == Cardinality({p \in 1..Len(line) : line[p] \in MusicalClass})

\* len(line.replace(' ', ''))
TotalChars(line) == Cardinality({p \in 1..Len(line) : line[p] # " "})

\* _is_musical_notation: musical_chars / total_chars > 0.6
IsMusicalNotation(line) ==
    /\ TotalChars(line) > 0
    /\ MusicalChars(line) * THRESHOLD_DEN > THRESHOLD_NUM * TotalChars(line)

\* the for loop of _apply_pattern_cleaning, from pattern k on
RECURSIVE ApplyPatterns(_, _)
ApplyPatterns(k, line) ==
    IF k > Len(MUSICAL_PATTERNS) THEN line
    ELSE ApplyPatterns(k + 1, ReSub(MUSICAL_PATTERNS[k], line))

\* str.split(): the words
RECURSIVE SplitWords(_)
SplitWords(s) ==
    LET t == SubSeq(s, LeadSpaces(s) + 1, Len(s))
        w == CHOOSE e \in 0..Len(t) :
                 /\ \A q \in 1..e : ~IsSpace(t[q])
                 /\ (e = Len(t) \/ IsSpace(t[e + 1]))
    IN  IF t = <<>> THEN <<>>
        ELSE <<SubSeq(t, 1, w)>> \o SplitWords(SubSeq(t, w + 1, Len(t)))

\* _apply_pattern_cleaning
ApplyPatternCleaning(line) == Join(<<" ">>, SplitWords(ApplyPatterns(1, line)))

\* HasValidContent with a fault seeded: the search for 3 letters is left out
HasValidContent_LengthOnly(line) ==
    /\ line # <<>>
    /\ Len(Strip(line)) > 2

\* _has_valid_content
HasValidContent(line) ==
    /\ line # <<>>
    /\ Len(Strip(line)) > 2
    /\ ReSearch(<<AtLeast(AsciiLower, 3)>>, line)

\* clean_musical_notation: what the loop body does with one line
LineFate(line) ==
    IF Strip(line) = <<>> THEN "blank"
    ELSE IF IsMusicalNotation(Strip(line)) THEN "musical"
    ELSE IF HasValidContent(ApplyPatternCleaning(Strip(line))) THEN "kept"
    ELSE "invalid"

CInLoop == cpass \in {1, 2} /\ cpos < Len(clines)
CLine == LineAt(clines, cpos)
CLog(fate, out) ==
    chist' = Append(chist, [pass |-> cpass, line |-> CLine, fate |-> fate, out |-> out])

\* Keep with a fault seeded: the line is put in front of the list
Keep_InFront(cleaned, cleaned_line) == <<cleaned_line>> \o cleaned

\* cleaned_lines.append(cleaned_line)
Keep(cleaned, cleaned_line) == Append(cleaned, cleaned_line)

\* clean_musical_notation, one iteration of the for loop per action
CleanSkipBlank ==
    /\ CInLoop /\ LineFate(CLine) = "blank"
    /\ cpos' = cpos + 1
    /\ UNCHANGED <<ctext, cpass, clines, cleaned_lines, removed_count, chist>>
    /\ UNCHANGED detvars
    /\ UNCHANGED flvars

CleanDropMusical ==
    /\ CInLoop /\ LineFate(CLine) = "musical"
    /\ removed_count' = removed_count + 1
    /\ cpos' = cpos + 1
    /\ CLog("musical", <<>>)
    /\ UNCHANGED <<ctext, cpass, clines, cleaned_lines>>
    /\ UNCHANGED detvars
    /\ UNCHANGED flvars

CleanKeep ==
    /\ CInLoop /\ LineFate(CLine) = "kept"
    /\ cleaned_lines' = Keep(cleaned_lines, ApplyPatternCleaning(Strip(CLine)))
    /\ cpos' = cpos + 1
    /\ CLog("kept", ApplyPatternCleaning(Strip(CLine)))
    /\ UNCHANGED <<ctext, cpass, clines, removed_count>>
    /\ UNCHANGED detvars
    /\ UNCHANGED flvars

CleanDropInvalid ==
    /\ CInLoop /\ LineFate(CLine) = "invalid"
    /\ cpos' = cpos + 1
    /\ CLog("invalid", ApplyPatternCleaning(Strip(CLine)))
    /\ UNCHANGED <<ctext, cpass, clines, cleaned_lines, removed_count>>
    /\ UNCHANGED detvars
    /\ UNCHANGED flvars

\* clean_musical_notation returns '\n'.join(cleaned_lines); the first result is
\* then cleaned again
CleanReturn ==
    /\ cpass \in {1, 2} /\ cpos = Len(clines)
    /\ ctext' = Append(ctext, Join(<<NL>>, cleaned_lines))
    /\ cpass' = cpass + 1
    /\ clines' = IF cpass = 1 THEN SplitNL(Join(<<NL>>, cleaned_lines)) ELSE <<>>
    /\ cpos' = 0
    /\ cleaned_lines' = <<>>
    /\ removed_count' = 0
    /\ UNCHANGED chist
    /\ UNCHANGED detvars
    /\ UNCHANGED flvars


(***************************************************************************)
(* The inputs: lines of hymnal text, and the texts built from them.         *)
(***************************************************************************)
LnBlank == <<>>
LnAmazing == <<"1"," ","A","m","a","z","i","n","g"," ","G","r","a","c","e">>
LnSweet == <<"H","o","w"," ","s","w","e","e","t"," ","t","h","e"," ","s","o","u","n","d">>
LnSecond == <<"2"," ","S","e","c","o","n","d"," ","S","o","n","g">>
LnMore == <<"M","o","r","e"," ","w","o","r","d","s"," ","h","e","r","e">>
LnNumShort == <<"3"," ","a","b">>
LnNumFour == <<"2"," ","a","b","c","d">>
LnNumFive == <<"1","2"," ","a"," ","b"," ","c"," ","d">>
LnNumLong == <<"1","0"," ","T","h","e","n"," ","s","i","n","g","s"," ","m","y"," ","s","o","u","l">>
LnChorus == <<"C","H","O","R","U","S">>
LnChorusMixed == <<" ","C","h","o","r","u","s",":">>
LnNumChorus == <<"7"," ","C","h","o","r","u","s">>
LnChorusAngels == <<"5"," ","C","h","o","r","u","s"," ","o","f"," ","a","n","g","e","l","s">>
LnOhLord == <<"O","h"," ","L","o","r","d">>
LnAa == <<"a","a">>
LnGlory == <<"G","L","O","R","Y">>
LnBookTitle == <<"H","Y","M","N","S"," ","O","F"," ","P","R","A","I","S","E">>
LnVerseOh == <<"1"," ","O","h">>
LnVerseAbc == <<"2"," ","a","b","c">>
LnVerseGrace == <<"1"," ","A","m","a","z","i","n","g"," ","g","r","a","c","e"," ","h","o","w"," ","s","w","e","e","t">>

ClBlank == <<>>
ClProse == <<"A","m","a","z","i","n","g"," ","g","r","a","c","e">>
ClSolfa == <<"d",":","d","|","s",":","-">>
ClMixed == <<"s","s","a","T",":">>
ClUpper == <<"S","T","I","L","L">>
ClDots == <<"a","b","c",".",".",".",".",".">>
ClBars == <<"|","h","o","p","e","|">>
ClTail == <<" ","H","o","l","y",","," ","h","o","l","y",".","."," ">>
ClDashes == <<EMDASH,EMDASH,EMDASH>>
ClCirc == <<"a","b","c"," ",aCIRC,aCIRC,aCIRC,aCIRC,aCIRC>>

\* bounds of the inputs
MaxLines == 3
MaxCont == 50
MaxChars == 4
MaxCleanLines == 2
MaxBody == 2
MaxChorusCont == 32
MaxFiles == 3

\* the text whose lines are ls
TextOf(ls) == Join(<<NL>>, ls)

SeqsUpTo(S, n) == UNION {[1..m -> S] : m \in 0..n}

\* any text of at most MaxLines lines of the pool
LinePool ==
    {LnBlank, LnAmazing, LnSweet, LnSecond, LnNumShort, LnNumFour, LnNumFive,
     LnChorus, LnChorusAngels, LnOhLord, LnAa, LnBookTitle}
GenericTexts == {TextOf(ls) : ls \in SeqsUpTo(LinePool, MaxLines)}

\* "1 Amazing Grace\nHow sweet the sound\n2 Second Song\nMore words here\n"
AmazingText == TextOf(<<LnAmazing, LnSweet, LnSecond, LnMore, LnBlank>>)

\* a block of 4 numbered lines, with or without a song open before it
NumberedBlockTexts ==
    {TextOf(pre \o blk \o suf) :
        pre \in {<<>>, <<LnAmazing>>, <<LnAmazing, LnSweet>>},
        blk \in [1..4 -> {LnNumShort, LnNumFour, LnNumLong}],
        suf \in {<<>>, <<LnSweet>>, <<LnNumFour>>}}

\* a chorus marker, 3 lines, and a numbered line of 5 words, in an open song
ChorusTexts ==
    {TextOf(pre \o <<mark>> \o body \o <<num>> \o suf) :
        pre \in {<<LnAmazing>>, <<LnAmazing, LnSweet>>},
        mark \in {LnChorus, LnChorusMixed, LnNumChorus},
        body \in [1..3 -> {LnAa, LnOhLord, LnSweet, LnGlory}],
        num \in {LnNumFive, LnNumLong},
        suf \in {<<>>, <<LnMore>>}}

\* a numbered line followed by n lines that stop no verse, in an open song
ContLines(n, cyc) == [k \in 1..n |-> cyc[((k - 1) % Len(cyc)) + 1]]
CapTexts ==
    {TextOf(<<LnAmazing, start>> \o ContLines(n, cyc)) :
        start \in {LnVerseOh, LnVerseAbc, LnVerseGrace},
        n \in 0..MaxCont,
        cyc \in {<<LnSweet>>, <<LnAa, LnOhLord, LnMore>>}}

\* two chorus markers in one open song, each followed by at most MaxBody lines
TwoChorusTexts ==
    {TextOf(<<LnAmazing>> \o <<m1>> \o b1 \o <<m2>> \o b2) :
        m1 \in {LnChorus, LnChorusMixed}, m2 \in {LnChorus},
        b1 \in SeqsUpTo({LnOhLord, LnAa, LnBlank}, MaxBody),
        b2 \in SeqsUpTo({LnOhLord, LnVerseAbc, LnBlank}, MaxBody)}

\* three numbered title lines, each followed by a body that is empty, too short to be a
\* verse, a verse, or a chorus
SongTexts ==
    {TextOf(<<h[1]>> \o b[1] \o <<h[2]>> \o b[2] \o <<h[3]>> \o b[3]) :
        h \in [1..3 -> {LnAmazing, LnNumLong, LnVerseGrace}],
        b \in [1..3 -> {<<>>, <<LnAa>>, <<LnOhLord>>, <<LnChorus, LnAa>>}]}

\* a chorus marker in an open song followed by n lines that stop no chorus, without and
\* with a blank line after each
ChorusCapTexts ==
    {TextOf(<<LnAmazing, LnChorus>> \o ContLines(n * Len(cyc), cyc)) :
        n \in 0..MaxChorusCont,
        cyc \in {<<LnOhLord>>, <<LnSweet, LnBlank>>}}

\* one song with a numbered line, n lines that stop no verse, a chorus marker and
\* MaxChorusCont lines that stop no chorus
FullSongTexts ==
    {TextOf(<<LnAmazing, LnVerseOh>> \o ContLines(n, <<LnSweet>>) \o <<LnChorus>>
            \o ContLines(MaxChorusCont, <<LnOhLord>>)) : n \in {5, 9}}

\* one song with its first verses, followed by at most MaxLines lines that stop no verse
ShortBlockTexts ==
    {TextOf(pre \o tail) :
        pre \in {<<LnAmazing>> \o ContLines(4, <<LnSweet>>),
                 <<LnAmazing, LnVerseOh>> \o ContLines(9, <<LnSweet>>)},
        tail \in SeqsUpTo({LnOhLord, LnAa, LnMore, LnBlank}, MaxLines)}

Texts ==
    GenericTexts \cup {AmazingText} \cup NumberedBlockTexts \cup ChorusTexts \cup CapTexts
    \cup TwoChorusTexts \cup SongTexts \cup ChorusCapTexts \cup FullSongTexts
    \cup ShortBlockTexts

\* the cleaner's inputs: every line of at most MaxChars characters of the alphabet,
\* and every text of at most MaxCleanLines lines of the pool
CleanAlphabet == {"s", "a", "T", ":", ".", " ", ","}
CleanPool ==
    {ClBlank, ClProse, ClSolfa, ClMixed, ClUpper, ClDots, ClBars, ClTail, ClDashes, ClCirc}
CleanTexts ==
    SeqsUpTo(CleanAlphabet, MaxChars)
    \cup {TextOf(ls) : ls \in SeqsUpTo(CleanPool, MaxCleanLines)}

(***************************************************************************)
(* BookExtractor.process_files (src/book_extrator.py) with the report of   *)
(* ReportGenerator (src/report_generator/report_generator.py).             *)
(***************************************************************************)
\* the entries of the directory, in the order of os.listdir: MaxFiles names that end
\* with .pdf in lower or upper case, and one that does not
DirEntries ==
    [k \in 1..MaxFiles |->
        Str(k) \o (IF k % 2 = 1 THEN <<".","p","d","f">> ELSE <<".","P","D","F">>)]
    \o <<<<"n","o","t","e","s",".","t","x","t">>>>
Listings == {SelectSeq(DirEntries, LAMBDA e : e \in S) : S \in SUBSET Range(DirEntries)}
\* what text extraction returns, the messages of the exceptions, the songs detected
ExtractedTexts == {<<>>, <<" ", NL>>, <<"a", "b">>}
ErrorMessages == {<<>>, <<"S","U","C","C","E","S","S">>}
SongCounts == {0, 1}

\* str.lower()
ToLower(s) == [p \in 1..Len(s) |-> LowerChar(s[p])]
\* f.lower().endswith('.pdf')
IsPdf(f) == Len(f) >= 4 /\ SubSeq(ToLower(f), Len(f) - 3, Len(f)) = <<".","p","d","f">>
\* _get_pdf_files
PdfFiles(listing) == SelectSeq(listing, IsPdf)
\* os.path.splitext(file)[0], for a name that ends with a dot and 3 characters
BaseName(file) == SubSeq(file, 1, Len(file) - 4)
\* datetime.now().strftime("%Y%m%d_%H%M%S")
Timestamp == <<"2","0","2","4","0","1","0","1","_","0","0","0","0","0","0">>
\* output_folder = f"{base_name}_extracted_{timestamp}"
OutputFolder(file) == BaseName(file) \o <<"_","e","x","t","r","a","c","t","e","d","_">> \o Timestamp

STATUS_SUCCESS == <<"S","U","C","C","E","S","S">>
\* _add_successful_result: the result
SuccessfulResult(original_file, output_folder, songs_found) ==
    [original_file |-> original_file,
     output_folder |-> output_folder,
     excel_file |-> BaseName(original_file) \o <<"_","e","x","t","r","a","c","t","e","d",".","x","l","s","x">>,
     json_file |-> BaseName(original_file) \o <<"_","e","x","t","r","a","c","t","e","d",".","j","s","o","n">>,
     word_file |-> IF work.word_available THEN BaseName(original_file) \o <<"_","e","x","t","r","a","c","t","e","d",".","d","o","c","x">>
                   ELSE <<"N","/","A">>,
     songs_found |-> songs_found,
     status |-> STATUS_SUCCESS]

\* FailedResult with a fault seeded: the status is the message alone
FailedResult_NoPrefix(original_file, error_message) ==
    [original_file |-> original_file, status |-> error_message]

\* _add_failed_result: the result, status f'ERROR: {error_message}'
FailedResult(original_file, error_message) ==
    [original_file |-> original_file, status |-> <<"E","R","R","O","R",":"," ">> \o error_message]

\* ReportGenerator.add_result
AddResult(result) == extracted_books' = Append(extracted_books, result)

\* the file in work
CurFile == files[fidx]
\* _process_single_file returns: the for loop of process_files goes to the next file, or
\* ends
NextFile ==
    /\ fidx' = fidx + 1
    /\ fpc' = IF fidx < Len(files) THEN "extract" ELSE "report"

\* _setup_directory: process_files returns when the directory did not exist
SetupDirectory ==
    /\ fpc = "setup"
    /\ \E exists \in BOOLEAN : fpc' = IF exists THEN "list" ELSE "returned"
    /\ UNCHANGED <<files, fidx, work, extracted_books, report_data>>
    /\ UNCHANGED detvars
    /\ UNCHANGED clnvars

\* _get_pdf_files: process_files returns when there is no PDF file
GetPdfFiles ==
    /\ fpc = "list"
    /\ \E listing \in Listings :
          /\ files' = PdfFiles(listing)
          /\ fpc' = IF PdfFiles(listing) = <<>> THEN "returned" ELSE "extract"
          /\ fidx' = IF PdfFiles(listing) = <<>> THEN 0 ELSE 1
    /\ UNCHANGED <<work, extracted_books, report_data>>
    /\ UNCHANGED detvars
    /\ UNCHANGED clnvars

\* _process_single_file: _extract_text raises
ExtractRaises ==
    /\ fpc = "extract"
    /\ \E e \in ErrorMessages : AddResult(FailedResult(CurFile, e))
    /\ NextFile
    /\ UNCHANGED <<files, work, report_data>>
    /\ UNCHANGED detvars
    /\ UNCHANGED clnvars

\* _process_single_file: `if not text.strip()`
ExtractEmpty ==
    /\ fpc = "extract"
    /\ \E text \in ExtractedTexts :
          /\ Strip(text) = <<>>
          /\ AddResult(FailedResult(CurFile, <<"N","o"," ","t","e","x","t"," ","e","x","t","r","a","c","t","e","d">>))
    /\ NextFile
    /\ UNCHANGED <<files, work, report_data>>
    /\ UNCHANGED detvars
    /\ UNCHANGED clnvars

\* _process_single_file: text was extracted
ExtractOk ==
    /\ fpc = "extract"
    /\ \E text \in ExtractedTexts : Strip(text) # <<>>
    /\ fpc' = "detect"
    /\ UNCHANGED <<files, fidx, work, extracted_books, report_data>>
    /\ UNCHANGED detvars
    /\ UNCHANGED clnvars

\* _process_single_file: detect_structure raises
DetectRaises ==
    /\ fpc = "detect"
    /\ \E e \in ErrorMessages : AddResult(FailedResult(CurFile, e))
    /\ NextFile
    /\ UNCHANGED <<files, work, report_data>>
    /\ UNCHANGED detvars
    /\ UNCHANGED clnvars

\* _process_single_file: detect_structure returns a structure
DetectOk ==
    /\ fpc = "detect"
    /\ \E n \in SongCounts : work' = [work EXCEPT !.songs_found = n]
    /\ fpc' = "folder"
    /\ UNCHANGED <<files, fidx, extracted_books, report_data>>
    /\ UNCHANGED detvars
    /\ UNCHANGED clnvars

\* _create_output_files: os.makedirs, with the fallback to the directory when it raises
MakeFolder ==
    /\ fpc = "folder"
    /\ \E made \in BOOLEAN :
          work' = [work EXCEPT !.output_folder = IF made THEN OutputFolder(CurFile) ELSE <<>>]
    /\ fpc' = "export"
    /\ UNCHANGED <<files, fidx, extracted_books, report_data>>
    /\ UNCHANGED detvars
    /\ UNCHANGED clnvars

\* _create_output_files: one of the exporters raises
ExportRaises ==
    /\ fpc = "export"
    /\ \E e \in ErrorMessages :
          AddResult(FailedResult(CurFile, <<"F","i","l","e"," ","c","r","e","a","t","i","o","n"," ","e","r","r","o","r",":"," ">> \o e))
    /\ fpc' = "completed"
    /\ UNCHANGED <<files, fidx, work, report_data>>
    /\ UNCHANGED detvars
    /\ UNCHANGED clnvars

\* _create_output_files: the three files are written
ExportOk ==
    /\ fpc = "export"
    /\ AddResult(SuccessfulResult(CurFile, work.output_folder, work.songs_found))
    /\ fpc' = "completed"
    /\ UNCHANGED <<files, fidx, work, report_data>>
    /\ UNCHANGED detvars
    /\ UNCHANGED clnvars

\* _process_single_file after _create_output_files: "Processing completed!"
Completed ==
    /\ fpc = "completed"
    /\ NextFile
    /\ UNCHANGED <<files, work, extracted_books, report_data>>
    /\ UNCHANGED detvars
    /\ UNCHANGED clnvars

\* _save_detailed_report: the lists successful and failed
Successful(books) == SelectSeq(books, LAMBDA b : b.status = STATUS_SUCCESS)
Failed(books) == SelectSeq(books, LAMBDA b : Contains(b.status, <<"E","R","R","O","R">>))

\* generate_report: the summary of the saved report
GenerateReport ==
    /\ fpc = "report"
    /\ report_data' = <<[total |-> Len(extracted_books),
                         successful |-> Len(Successful(extracted_books)),
                         failed |-> Len(Failed(extracted_books))]>>
    /\ fpc' = "returned"
    /\ UNCHANGED <<files, fidx, work, extracted_books>>
    /\ UNCHANGED detvars
    /\ UNCHANGED clnvars

(***************************************************************************)
(* The specifications.                                                     *)
(***************************************************************************)
DetectorIdle ==
    /\ lines = <<>> /\ i = 0 /\ current_song = None
    /\ structure = [title |-> <<>>, songs |-> <<>>]
    /\ pc = "idle" /\ hist = <<>>

CleanerIdle ==
    /\ ctext = <<>> /\ cpass = 0 /\ clines = <<>> /\ cpos = 0
    /\ cleaned_lines = <<>> /\ removed_count = 0 /\ chist = <<>>

FilesIdle ==
    /\ files = <<>> /\ fidx = 0 /\ fpc = "idle"
    /\ work = [word_available |-> FALSE, songs_found |-> 0, output_folder |-> <<>>]
    /\ extracted_books = <<>> /\ report_data = <<>>

\* detect_structure(text) up to the main loop
Init ==
    /\ \E text \in Texts : lines = SplitNL(text)
    /\ i = 0
    /\ current_song = None
    /\ structure = [title |-> <<>>, songs |-> <<>>]
    /\ pc = "loop"
    /\ hist = <<>>
    /\ CleanerIdle
    /\ FilesIdle

Next ==
    \/ SkipBlank
    \/ SongHeader
    \/ MainTitle
    \/ Chorus
    \/ NumberedVerse
    \/ UnnumberedVerse
    \/ Fallback
    \/ Finish

Spec == Init /\ [][Next]_vars

\* clean_musical_notation(text) up to the for loop
CleanInit ==
    /\ \E text \in CleanTexts :
          /\ ctext = <<text>>
          /\ clines = SplitNL(text)
    /\ cpass = 1
    /\ cpos = 0
    /\ cleaned_lines = <<>>
    /\ removed_count = 0
    /\ chist = <<>>
    /\ DetectorIdle
    /\ FilesIdle

CleanNext ==
    \/ CleanSkipBlank
    \/ CleanDropMusical
    \/ CleanKeep
    \/ CleanDropInvalid
    \/ CleanReturn

SpecClean == CleanInit /\ [][CleanNext]_vars

\* BookExtractor(directory).process_files() up to _setup_directory
FilesInit ==
    /\ files = <<>> /\ fidx = 0 /\ fpc = "setup"
    /\ \E w \in BOOLEAN :
          work = [word_available |-> w, songs_found |-> 0, output_folder |-> <<>>]
    /\ extracted_books = <<>> /\ report_data = <<>>
    /\ DetectorIdle
    /\ CleanerIdle

FilesNext ==
    \/ SetupDirectory
    \/ GetPdfFiles
    \/ ExtractRaises
    \/ ExtractEmpty
    \/ ExtractOk
    \/ DetectRaises
    \/ DetectOk
    \/ MakeFolder
    \/ ExportRaises
    \/ ExportOk
    \/ Completed
    \/ GenerateReport

SpecFiles == FilesInit /\ [][FilesNext]_vars


(***************************************************************************)
(* Properties of detect_structure.                                         *)
(***************************************************************************)
HistAt(k) == {n \in DOMAIN hist : hist[n].at = k}
Headers == {n \in DOMAIN hist : hist[n].rule = "header"}
\* line j of the input, stripped, as every rule reads it
Ln(j) == Strip(LineAt(lines, j))
\* the last iteration of the main loop, of which the current state is the result
LastStep == hist[Len(hist)]
LastVerse == current_song[1].verses[Len(current_song[1].verses)]

\* a line that stops no collection loop: not blank, no leading digit, no chorus keyword
Plain(j) == Ln(j) # <<>> /\ ~StartsDigit(Ln(j)) /\ ~IsChorusLine(Ln(j))

\* C1: for the text "1 Amazing Grace\nHow sweet the sound\n2 Second Song\nMore words
\* here\n" the result is exactly two songs, "1" "Amazing Grace" and "2" "Second Song",
\* each with at least one verse; and no line that is a header (digits, whitespace, a title
\* longer than 3 characters, the next line not numbered) is taken into an unnumbered verse.
C1_HeaderLine(j) ==
    /\ NumMatch(Ln(j)) /\ Len(Group2(Ln(j))) > 3
    /\ ~(j + 1 < Len(lines) /\ LeadNum(Ln(j + 1)))
\* C1, as claimed: the two songs of the example text, and no header line inside an
\* unnumbered verse
C1_HeaderAfterVerseOpensSong ==
    /\ (pc = "done" /\ lines = SplitNL(AmazingText)) =>
          /\ Len(structure.songs) = 2
          /\ structure.songs[1].number = <<"1">>
          /\ structure.songs[1].title = <<"A","m","a","z","i","n","g"," ","G","r","a","c","e">>
          /\ structure.songs[2].number = <<"2">>
          /\ structure.songs[2].title = <<"S","e","c","o","n","d"," ","S","o","n","g">>
          /\ \A n \in 1..2 : Len(structure.songs[n].verses) >= 1
    /\ \A n \in DOMAIN hist :
          hist[n].rule = "unnumbered" =>
              \A j \in (hist[n].at + 1)..(hist[n].to - 1) : ~C1_HeaderLine(j)

\* C2: of 4 consecutive lines that each start with digits, a space and short text, none
\* is accepted as a song header.
C2_ShortNumbered(j) == LeadNum(Ln(j)) /\ WordCount(Ln(j)) <= 3
C2_Block(k) == k + 3 < Len(lines) /\ \A j \in k..(k + 3) : C2_ShortNumbered(j)
\* C2, as claimed: no line of a block of 4 short numbered lines is accepted as a header
C2_NumberedBlockOpensNoSong ==
    \A k \in 0..(Len(lines) - 1) :
        C2_Block(k) => \A n \in Headers : hist[n].at \notin k..(k + 3)

\* C3: every returned song has at least one verse or a non-empty chorus.
C3_NoEmptySong ==
    pc = "done" =>
        \A n \in DOMAIN structure.songs :
            structure.songs[n].verses # <<>> \/ structure.songs[n].chorus # <<>>
\* C3, reached: a header was accepted for a song that ended with nothing (it is not in
\* the returned list) and the document is returned with another song in it
C3_Witness ==
    /\ pc = "done"
    /\ Cardinality(Headers) > Len(structure.songs)
    /\ Len(structure.songs) >= 1

\* C4: with a song open, a line containing "CHORUS", then 3 non-blank lines (not numbered,
\* no chorus keyword), then a line that starts with a 2-digit number and has 5 words: the
\* chorus is those 3 lines in order and the cursor resumes at the numbered line.
C4_Scene(k) ==
    /\ k + 4 < Len(lines)
    /\ Contains(ToUpper(Ln(k)), <<"C","H","O","R","U","S">>)
    /\ \A j \in (k + 1)..(k + 3) : Plain(j)
    /\ LeadNum(Ln(k + 4)) /\ DigitPrefix(Ln(k + 4)) = 2 /\ WordCount(Ln(k + 4)) = 5
C4_Captured(k) ==
    /\ LastStep.rule = "chorus"
    /\ current_song # None
    /\ current_song[1].chorus = <<Ln(k + 1), Ln(k + 2), Ln(k + 3)>>
    /\ i = k + 4
\* C4, as claimed: for every line containing "CHORUS", the chorus is the 3 lines and the
\* cursor is at the numbered line
C4_ChorusOfThreeLines ==
    (hist # <<>> /\ LastStep.open /\ C4_Scene(LastStep.at)) => C4_Captured(LastStep.at)
\* C4, as amended: the same for every such line that does not start with digits and
\* whitespace (a numbered line containing "CHORUS" is a song header: it opens a new song)
C4_ChorusOfThreeLinesUnnumbered ==
    (hist # <<>> /\ LastStep.open /\ C4_Scene(LastStep.at) /\ ~LeadNum(Ln(LastStep.at)))
        => C4_Captured(LastStep.at)
\* C4, reached: an unnumbered chorus line was processed in the scene and took the 3 lines
C4_Witness ==
    /\ hist # <<>> /\ LastStep.open /\ C4_Scene(LastStep.at) /\ ~LeadNum(Ln(LastStep.at))
    /\ C4_Captured(LastStep.at)

\* C5: with a song open, a numbered line (digits, whitespace, text of at most 15 words)
\* followed by 50 consecutive non-blank lines, none starting with a number or holding a
\* chorus keyword, yields a verse of exactly 6 lines: the captured text and the next 5.
C5_Scene(k) ==
    /\ k + MaxCont < Len(lines)
    /\ NumMatch(Ln(k)) /\ WordCount(Group2(Ln(k))) <= 15
    /\ \A j \in (k + 1)..(k + MaxCont) : Plain(j)
C5_SixLines(k) ==
    /\ LastStep.rule = "numbered"
    /\ current_song # None /\ current_song[1].verses # <<>>
    /\ LastVerse.number = Group1(Ln(k))
    /\ Len(LastVerse.lines) = 6
    /\ LastVerse.lines = <<Group2(Ln(k))>> \o [n \in 1..5 |-> Ln(k + n)]
\* C5, as claimed: for every numbered line of at most 15 words of text, the verse is the
\* captured text and the next 5 lines
C5_VerseCappedAtSix ==
    (hist # <<>> /\ LastStep.open /\ C5_Scene(LastStep.at)) => C5_SixLines(LastStep.at)
\* C5, as amended: the same for every such line whose captured text has at most 3
\* characters (with a longer text the line, followed by a line without number, is a header)
C5_ShortVerseCappedAtSix ==
    (hist # <<>> /\ LastStep.open /\ C5_Scene(LastStep.at)
        /\ Len(Group2(Ln(LastStep.at))) <= 3) => C5_SixLines(LastStep.at)
\* C5, reached: a numbered line of short text was processed in the scene and gave 6 lines
C5_Witness ==
    /\ hist # <<>> /\ LastStep.open /\ C5_Scene(LastStep.at)
    /\ Len(Group2(Ln(LastStep.at))) <= 3
    /\ C5_SixLines(LastStep.at)

\* the guard of one of the actions of Next holds: ENABLED Next, written out
C9_SomeStepEnabled ==
    \/ InLoop /\ Rule \in {"blank", "header", "title", "chorus", "numbered", "unnumbered",
                           "fallback"}
    \/ pc = "loop" /\ ~(i < Len(lines))
\* C9: every iteration of the main loop moves the cursor forward, by exactly 1 for a blank
\* line, a header, the title and the fallback; so there are at most len(lines) iterations,
\* the loop never stops before the end of the input, and the document is then returned.
C9_Terminates ==
    /\ \A n \in DOMAIN hist :
          /\ hist[n].to > hist[n].at
          /\ hist[n].rule \in {"blank", "header", "title", "fallback"}
                => hist[n].to = hist[n].at + 1
          /\ n > 1 => hist[n].at = hist[n - 1].to
    /\ Len(hist) <= Len(lines)
    /\ i <= Len(lines)
    /\ hist # <<>> => i = LastStep.to
    /\ pc = "loop" => C9_SomeStepEnabled
    /\ pc = "done" => i = Len(lines)
\* C9, reached: the document is returned after a run of several iterations in which a
\* collection loop moved the cursor over more than two lines at once
C9_Witness ==
    /\ pc = "done"
    /\ Len(hist) >= 2
    /\ \E n \in DOMAIN hist :
          hist[n].rule \in {"chorus", "numbered", "unnumbered"} /\ hist[n].to > hist[n].at + 2

\* C10: a chorus or a verse is extracted only with a song open; before the first accepted
\* header a line can give the title at most, and nothing is in the song list; once a song
\* is open, a song stays open to the end of the input.
C10_ExtractionOnlyInOpenSong ==
    /\ \A n \in DOMAIN hist :
          /\ hist[n].rule \in {"chorus", "numbered", "unnumbered"} => hist[n].open
          /\ ~hist[n].open => hist[n].rule \in {"blank", "header", "title", "fallback"}
          /\ hist[n].open <=> (\E m \in Headers : m < n)
    /\ (current_song # None) <=> (Headers # {})
    /\ (Headers = {}) => structure.songs = <<>>
\* C10, reached: a line was passed over with no song open, a song was opened after it
\* and a chorus or a verse was extracted into that song, which is in the returned list
C10_Witness ==
    /\ pc = "done"
    /\ hist # <<>> /\ ~hist[1].open /\ hist[1].rule = "fallback"
    /\ \E n \in DOMAIN hist : hist[n].rule \in {"chorus", "numbered", "unnumbered"}
    /\ structure.songs # <<>>

\* the iterations of the main loop that assigned the document title
TitleSteps == {n \in DOMAIN hist : hist[n].rule = "title"}
\* a line that passes the textual tests of the title rule: upper case, over 10 characters
TitleLike(j) == IsUpperStr(Ln(j)) /\ Len(Ln(j)) > 10

\* C11: the document title is assigned at most once in a run, only with no song open and
\* before the first accepted header; once it is set or a song is open no later line
\* changes it: it stays the line of the one assignment, or empty if there was none.
C11_TitleSetOnce ==
    /\ Cardinality(TitleSteps) <= 1
    /\ \A n \in TitleSteps : ~hist[n].open /\ \A m \in Headers : m > n
    /\ structure.title = IF TitleSteps = {} THEN <<>>
                          ELSE Ln(hist[CHOOSE n \in TitleSteps : TRUE].at)
\* C11, reached: the title was assigned, a song was opened, and a later upper-case line of
\* more than 10 characters was passed over
C11_Witness ==
    /\ TitleSteps # {}
    /\ \E n \in DOMAIN hist :
          /\ hist[n].open /\ hist[n].rule # "title" /\ TitleLike(hist[n].at)
          /\ \A m \in TitleSteps : m < n
    /\ structure.title # <<>>

\* the non-blank lines strictly between positions a and b, stripped, in input order
Between(a, b) ==
    SelectSeq([n \in 1..(b - a - 1) |-> Ln(a + n)], LAMBDA x : x # <<>>)
\* the iterations that took a chorus marker of the song that is open now
OpenSongChorusSteps ==
    {n \in DOMAIN hist : hist[n].rule = "chorus" /\ \A m \in Headers : m < n}
LastOf(S) == CHOOSE n \in S : \A m \in S : m <= n

\* C12: the chorus of the open song is exactly the lines collected after the last chorus
\* marker taken in that song (none if it collected none), whatever earlier markers of the
\* song collected; this holds up to the moment the song is closed, so for its final chorus.
C12_LastChorusWins ==
    current_song # None =>
        current_song[1].chorus =
            IF OpenSongChorusSteps = {} THEN <<>>
            ELSE Between(hist[LastOf(OpenSongChorusSteps)].at,
                         hist[LastOf(OpenSongChorusSteps)].to)
\* C12, reached: two markers were taken in the open song, the first collected lines and
\* the song's chorus is not what the first collected
C12_Witness ==
    /\ current_song # None
    /\ \E n \in OpenSongChorusSteps :
          /\ n < LastOf(OpenSongChorusSteps)
          /\ Between(hist[n].at, hist[n].to) # <<>>
          /\ current_song[1].chorus # Between(hist[n].at, hist[n].to)

\* the accepted headers in input order, each as the number and title it gives its song
RECURSIVE Ascending(_)
Ascending(S) ==
    IF S = {} THEN <<>>
    ELSE LET n == CHOOSE x \in S : \A y \in S : x <= y
         IN  <<n>> \o Ascending(S \ {n})
NameOfHeader(n) == <<Group1(Ln(hist[n].at)), Strip(Group2(Ln(hist[n].at)))>>
HeaderNames == [k \in 1..Cardinality(Headers) |-> NameOfHeader(Ascending(Headers)[k])]
SongNames == [k \in 1..Len(structure.songs) |->
                 <<structure.songs[k].number, structure.songs[k].title>>]
\* a is b with some entries left out: same relative order, no entry used twice
RECURSIVE IsSubsequence(_, _)
IsSubsequence(a, b) ==
    IF a = <<>> THEN TRUE
    ELSE IF b = <<>> THEN FALSE
    ELSE IF a[1] = b[1] /\ IsSubsequence(Tail(a), Tail(b)) THEN TRUE
    ELSE IsSubsequence(a, Tail(b))

\* C13: a song is appended to the song list exactly once, when the next header is accepted
\* or the input ends: during the loop the list holds, in input order, one entry for every
\* accepted header but the last (whose song is still open and not in the list); the
\* returned list is the accepted headers in input order with some left out, none twice.
C13_SongsAppendedOnceInOrder ==
    /\ pc = "loop" =>
          /\ Len(structure.songs) = (IF Headers = {} THEN 0 ELSE Cardinality(Headers) - 1)
          /\ SongNames = SubSeq(HeaderNames, 1, Len(structure.songs))
          /\ current_song # None =>
                <<current_song[1].number, current_song[1].title>>
                    = HeaderNames[Cardinality(Headers)]
    /\ pc = "done" =>
          /\ Len(structure.songs) <= Cardinality(Headers)
          /\ IsSubsequence(SongNames, HeaderNames)
          /\ current_song # None /\ (current_song[1].verses # <<>> \/ current_song[1].chorus # <<>>)
                => structure.songs[Len(structure.songs)] = current_song[1]
\* C13, reached: three headers were accepted, the song of one of them ended empty, and the
\* two other songs are returned
C13_Witness ==
    /\ pc = "done"
    /\ Cardinality(Headers) = 3
    /\ Len(structure.songs) = 2

\* where the collection loop of the numbered-verse rule stops when it starts after line k
NumberedStop(k) == NumberedLoop(lines, k + 1, <<Group2(Ln(k))>>)[2]

\* C16: an iteration of the numbered-verse rule on a line of at most 15 words of text
\* leaves the cursor at the line where its collection loop stopped, whether or not a
\* verse was emitted; the cursor moves by exactly 1 only when the text has more than 15
\* words or the loop consumed no line.
C16_CursorPastConsumedLines ==
    \A n \in DOMAIN hist :
        hist[n].rule = "numbered" =>
            IF WordCount(Group2(Ln(hist[n].at))) <= 15
            THEN hist[n].to = NumberedStop(hist[n].at)
            ELSE hist[n].to = hist[n].at + 1

\* C17: chorus collection stops at every line that starts with digits and whitespace,
\* whatever its word count: no such line lies among the lines a chorus marker consumed,
\* and none is in the chorus of the open song.
C17_ChorusStopsAtNumberedLine ==
    /\ \A n \in DOMAIN hist :
          hist[n].rule = "chorus" =>
              \A j \in (hist[n].at + 1)..(hist[n].to - 1) : ~LeadNum(Ln(j))
    /\ current_song # None =>
          \A p \in DOMAIN current_song[1].chorus : ~LeadNum(current_song[1].chorus[p])

\* a line at which chorus collection stops
ChorusStop(j) == (LeadNum(Ln(j)) /\ WordCount(Ln(j)) > 3) \/ IsChorusLine(Ln(j))
\* after the marker at line k no line stops the chorus and at least 30 are not blank
C18_Scene(k) ==
    /\ \A j \in (k + 1)..(Len(lines) - 1) : ~ChorusStop(j)
    /\ Len(Between(k, Len(lines))) >= MAX_CHORUS_LINES

\* C18: the chorus is capped at 30 collected lines and blank lines do not count: a marker
\* followed by 30 or more non-blank lines that stop no chorus, with or without blank lines
\* between them, gives a chorus of exactly the first 30 of them.
C18_ChorusCappedAtThirtyLines ==
    (hist # <<>> /\ LastStep.rule = "chorus" /\ C18_Scene(LastStep.at)) =>
        /\ Len(current_song[1].chorus) = MAX_CHORUS_LINES
        /\ current_song[1].chorus
              = SubSeq(Between(LastStep.at, Len(lines)), 1, MAX_CHORUS_LINES)

\* a header candidate: digits, whitespace, a captured text longer than 3 characters
Candidate(j) == NumMatch(Ln(j)) /\ Len(Group2(Ln(j))) > 3
\* how many of the lines k..k+4, as far as the input goes, start with digits and whitespace
NumberedInWindow(k) ==
    Cardinality({j \in k..(k + 4) : j < Len(lines) /\ LeadNum(Ln(j))})
NumberedSequenceAt(k) ==
    k + 1 < Len(lines) /\ LeadNum(Ln(k + 1)) /\ NumberedInWindow(k) >= 3

\* C19: a header candidate under the cursor is rejected, and taken by a later rule,
\* exactly when the next line is numbered and at least 3 of the lines i..i+4 are; else it
\* is accepted: the open song is closed into the list, the new song has the captured
\* number, the trimmed title, no verse and no chorus, and the cursor moves by exactly 1.
\* Only candidates are accepted.
C19_HeaderAcceptedUnlessNumberedSequence ==
    /\ \A n \in DOMAIN hist :
          /\ hist[n].rule = "header" => Candidate(hist[n].at) /\ hist[n].to = hist[n].at + 1
          /\ Candidate(hist[n].at) =>
                /\ hist[n].rule # "header" <=> NumberedSequenceAt(hist[n].at)
                /\ hist[n].rule \in {"header", "title", "chorus", "numbered", "fallback"}
    /\ (pc = "loop" /\ hist # <<>> /\ LastStep.rule = "header") =>
          /\ current_song = <<[number |-> Group1(Ln(LastStep.at)),
                               title |-> Strip(Group2(Ln(LastStep.at))),
                               verses |-> <<>>, chorus |-> <<>>]>>
          /\ i = LastStep.at + 1
          /\ Len(structure.songs) = Cardinality(Headers) - 1
\* C19, reached: with a song open, a candidate whose next line is numbered was accepted,
\* fewer than 3 of the 5 lines being numbered, after another candidate had been rejected
C19_Witness ==
    /\ hist # <<>> /\ LastStep.rule = "header" /\ LastStep.open
    /\ LastStep.at + 1 < Len(lines) /\ LeadNum(Ln(LastStep.at + 1))
    /\ \E n \in DOMAIN hist : Candidate(hist[n].at) /\ hist[n].rule = "numbered"

\* the next line exists and starts with digits and whitespace
NextNumbered(k) == k + 1 < Len(lines) /\ LeadNum(Ln(k + 1))

\* C20: the numbered-verse rule takes a line whose captured text is longer than 3
\* characters only when the next line is numbered; collection then stops at once, the
\* cursor moves by 1, and the verse, if one is emitted (text over 10 characters, at most 15
\* words), has the captured text as its only line.  A candidate whose next line is not
\* numbered is always taken as a header.
C20_LongTextVerseHasOneLine ==
    /\ \A n \in DOMAIN hist :
          /\ (hist[n].rule = "numbered" /\ Len(Group2(Ln(hist[n].at))) > 3) =>
                NextNumbered(hist[n].at) /\ hist[n].to = hist[n].at + 1
          /\ (Candidate(hist[n].at) /\ ~NextNumbered(hist[n].at)) => hist[n].rule = "header"
    /\ (hist # <<>> /\ LastStep.rule = "numbered" /\ Len(Group2(Ln(LastStep.at))) > 10
            /\ WordCount(Group2(Ln(LastStep.at))) <= 15) =>
          /\ current_song[1].verses # <<>>
          /\ LastVerse = [number |-> Group1(Ln(LastStep.at)),
                          lines |-> <<Group2(Ln(LastStep.at))>>]
\* C20, reached: a numbered line of long text inside a numbered sequence was taken by the
\* numbered-verse rule and gave a verse of one line
C20_Witness ==
    /\ hist # <<>> /\ LastStep.rule = "numbered"
    /\ Len(Group2(Ln(LastStep.at))) > 10
    /\ NextNumbered(LastStep.at)
    /\ Len(LastVerse.lines) = 1

\* a step that is an iteration of the main loop, the rule it applied, whether it appended
\* a verse to the open song, and that verse
Stepped == hist' # hist
StepRule == hist'[Len(hist')].rule
VerseEmitted ==
    /\ current_song # None /\ current_song' # None
    /\ Len(current_song'[1].verses) = Len(current_song[1].verses) + 1
NewVerse == current_song'[1].verses[Len(current_song'[1].verses)]

\* C21: whatever the input length, a verse emitted by the numbered-verse rule has at most
\* 6 lines, a verse emitted by the unnumbered-verse rule at most 4, and the chorus set by
\* the chorus rule at most 30; so in the returned document every verse has at most 6
\* lines and every chorus at most 30.
C21_CollectionsCapped ==
    /\ [][Stepped =>
            /\ (StepRule = "numbered" /\ VerseEmitted) => Len(NewVerse.lines) <= 6
            /\ (StepRule = "unnumbered" /\ VerseEmitted) => Len(NewVerse.lines) <= 4
            /\ StepRule = "chorus" => Len(current_song'[1].chorus) <= 30]_vars
    /\ [](pc = "done" =>
            \A n \in DOMAIN structure.songs :
                /\ \A v \in DOMAIN structure.songs[n].verses :
                      Len(structure.songs[n].verses[v].lines) <= 6
                /\ Len(structure.songs[n].chorus) <= 30)
\* C21, reached: a document is returned with a song that has a verse of 6 lines, a verse
\* of 4 lines and a chorus of 29 lines, from an input with more lines after each of them
C21_Witness ==
    /\ pc = "done"
    /\ \E n \in DOMAIN structure.songs :
          /\ Len(structure.songs[n].verses) >= 3
          /\ Len(structure.songs[n].verses[1].lines) = 6
          /\ Len(structure.songs[n].verses[2].lines) = 4
          /\ Len(structure.songs[n].chorus) >= 29

\* the verses the open song had before the step are the first verses it has after it
VersesKept ==
    SubSeq(current_song'[1].verses, 1, Len(current_song[1].verses)) = current_song[1].verses

\* C22: the cursor never moves backwards, and what an iteration adds to the document is
\* made of the lines from the cursor before it up to the cursor after it, and of nothing
\* else: a header or the title takes the line under the cursor and moves by 1; an emitted
\* verse is the text of the line under the cursor followed by the non-blank lines passed
\* over, a chorus is the non-blank lines passed over; nothing else changes in the step.
\* So no input line is in two verses, in two songs, or in a verse and a chorus.
C22_EachLineUsedOnce ==
    [][/\ i' >= i
       /\ Stepped =>
            /\ i' > i
            /\ StepRule = "header" =>
                  /\ i' = i + 1
                  /\ current_song' = <<[number |-> Group1(Ln(i)), title |-> Strip(Group2(Ln(i))),
                                        verses |-> <<>>, chorus |-> <<>>]>>
                  /\ structure'.title = structure.title
            /\ StepRule = "title" =>
                  /\ i' = i + 1
                  /\ structure' = [structure EXCEPT !.title = Ln(i)]
                  /\ current_song' = current_song
            /\ StepRule = "chorus" =>
                  /\ current_song'[1] = [current_song[1] EXCEPT !.chorus = Between(i, i')]
                  /\ structure' = structure
            /\ (StepRule = "numbered" /\ VerseEmitted) =>
                  /\ NewVerse.lines = <<Group2(Ln(i))>> \o Between(i, i')
                  /\ VersesKept
                  /\ current_song'[1].chorus = current_song[1].chorus
                  /\ structure' = structure
            /\ (StepRule = "unnumbered" /\ VerseEmitted) =>
                  /\ NewVerse.lines = <<Ln(i)>> \o Between(i, i')
                  /\ VersesKept
                  /\ current_song'[1].chorus = current_song[1].chorus
                  /\ structure' = structure
            /\ (StepRule \in {"blank", "fallback"}
                    \/ (StepRule \in {"numbered", "unnumbered"} /\ ~VerseEmitted)) =>
                  current_song' = current_song /\ structure' = structure]_vars
\* C22, reached: a document is returned after a run in which a numbered verse, an
\* unnumbered verse and a chorus were each collected over several lines, one after the
\* other, in one song
C22_Witness ==
    /\ pc = "done"
    /\ \E a, b, c \in DOMAIN hist :
          /\ a < b /\ b < c
          /\ hist[a].rule = "numbered" /\ hist[a].to > hist[a].at + 1
          /\ hist[b].rule = "unnumbered" /\ hist[b].to > hist[b].at + 1
          /\ hist[c].rule = "chorus" /\ hist[c].to > hist[c].at + 1
          /\ \A n \in a..c : hist[n].rule # "header"
    /\ \E n \in DOMAIN structure.songs :
          Len(structure.songs[n].verses) >= 2 /\ structure.songs[n].chorus # <<>>

\* C23: a song in the song list is never modified: while the loop runs every step leaves
\* the songs of the list as they are, in place, and a header adds to the list, as its last
\* entry, the song that was open, as it was; a verse or a chorus goes to the open song and
\* leaves the list alone; the return only adds the open song and leaves songs out.
C23_ClosedSongsFrozen ==
    [][/\ pc' = "loop" =>
            /\ Len(structure'.songs) >= Len(structure.songs)
            /\ SubSeq(structure'.songs, 1, Len(structure.songs)) = structure.songs
       /\ (Stepped /\ StepRule = "header" /\ current_song # None) =>
            structure'.songs = Append(structure.songs, current_song[1])
       /\ (Stepped /\ StepRule # "header") => structure'.songs = structure.songs
       /\ pc' = "done" =>
            IsSubsequence(structure'.songs,
                          IF current_song = None THEN structure.songs
                          ELSE Append(structure.songs, current_song[1]))]_vars
\* C23, reached: with a song that holds a verse in the list, the open song was given a
\* chorus by the last iteration
C23_Witness ==
    /\ pc = "loop"
    /\ structure.songs # <<>>
    /\ structure.songs[1].verses # <<>>
    /\ current_song # None
    /\ current_song[1].chorus # <<>>
    /\ hist # <<>> /\ LastStep.rule = "chorus"

\* every verse of the song list and of the open song
AllVerses ==
    UNION {{structure.songs[n].verses[v] : v \in DOMAIN structure.songs[n].verses} :
              n \in DOMAIN structure.songs}
    \cup (IF current_song = None THEN {}
          ELSE {current_song[1].verses[v] : v \in DOMAIN current_song[1].verses})
\* the block of lines an iteration of a verse rule passed over, from line a up to line b
Block(a, b) == <<Ln(a)>> \o Between(a, b)

\* C24: a verse emitted by the numbered-verse rule has lines that, joined by single
\* spaces, are longer than 10 characters; a verse emitted by the unnumbered-verse rule into
\* a song that has a verse already has joined lines longer than 15 characters; and every
\* verse, at any time and in the returned document, has at least one line and no blank
\* line.
C24_VersesLongEnough ==
    /\ [][Stepped =>
            /\ (StepRule = "numbered" /\ VerseEmitted) =>
                  Len(Join(<<" ">>, NewVerse.lines)) > 10
            /\ (StepRule = "unnumbered" /\ VerseEmitted /\ current_song[1].verses # <<>>) =>
                  Len(Join(<<" ">>, NewVerse.lines)) > 15]_vars
    /\ [](\A v \in AllVerses :
            /\ v.lines # <<>>
            /\ \A p \in DOMAIN v.lines : Strip(v.lines[p]) # <<>>)
\* C24, reached: a document is returned with a song of at least 2 verses after a run in
\* which a verse rule passed over a block too short to be a verse and emitted nothing
C24_Witness ==
    /\ pc = "done"
    /\ \E n \in DOMAIN structure.songs : Len(structure.songs[n].verses) >= 2
    /\ \E n \in DOMAIN hist :
          /\ hist[n].rule = "unnumbered"
          /\ Len(Join(<<" ">>, Block(hist[n].at, hist[n].to))) <= 15
          /\ \A v \in AllVerses : v.lines # Block(hist[n].at, hist[n].to)

\* the iterations of the numbered-verse rule in the song that is open now
OpenSongNumberedSteps ==
    {n \in DOMAIN hist : hist[n].rule = "numbered" /\ \A m \in Headers : m < n}

\* C25: a verse emitted by the unnumbered-verse rule has as its number its 1-based
\* position in the verse list of its song, in decimal; so while the numbered-verse rule
\* has not run in the open song, its verses are numbered "1", "2", ..., "n" in order.
C25_UnnumberedVerseNumber ==
    /\ [][(Stepped /\ StepRule = "unnumbered" /\ VerseEmitted) =>
            NewVerse.number = Str(Len(current_song'[1].verses))]_vars
    /\ []((current_song # None /\ OpenSongNumberedSteps = {}) =>
            \A k \in DOMAIN current_song[1].verses : current_song[1].verses[k].number = Str(k))
\* C25, reached: a song whose verses all came from the unnumbered-verse rule is returned
\* with 12 verses or more, the tenth numbered "10"
C25_Witness ==
    /\ pc = "done"
    /\ current_song # None /\ OpenSongNumberedSteps = {}
    /\ Len(current_song[1].verses) >= 12
    /\ current_song[1].verses[10].number = <<"1", "0">>
    /\ structure.songs[Len(structure.songs)] = current_song[1]

\* C26: the unnumbered-verse rule emits a verse exactly when the open song has no verse
\* yet or the collected lines, joined by single spaces, are longer than 15 characters;
\* emitted or not, the cursor is left at the line where collection stopped (the end of the
\* input, the line after the fourth collected line, or the first line that is numbered
\* with over 3 words or holds a chorus keyword), and a rejected block changes nothing.
C26_UnnumberedEmitsOrDrops ==
    [][(Stepped /\ StepRule = "unnumbered") =>
          /\ VerseEmitted <=>
                (current_song[1].verses = <<>> \/ Len(Join(<<" ">>, Block(i, i'))) > 15)
          /\ Len(Block(i, i')) <= 4
          /\ \/ i' = Len(lines)
             \/ Len(Block(i, i')) = 4 /\ Ln(i' - 1) # <<>>
             \/ ChorusStop(i')
          /\ Len(Block(i, i')) = 4 => Ln(i' - 1) # <<>>
          /\ \A j \in (i + 1)..(i' - 1) : ~ChorusStop(j)
          /\ ~VerseEmitted => (current_song' = current_song /\ structure' = structure)]_vars
\* C26, reached: in a song that has a verse, the last iteration collected two lines or
\* more, too short together to be a verse, emitted nothing and left the cursor after them
C26_Witness ==
    /\ hist # <<>> /\ LastStep.rule = "unnumbered"
    /\ LastStep.to > LastStep.at + 1
    /\ Len(Block(LastStep.at, LastStep.to)) >= 2
    /\ Len(Join(<<" ">>, Block(LastStep.at, LastStep.to))) <= 15
    /\ current_song[1].verses # <<>>
    /\ LastVerse.lines # Block(LastStep.at, LastStep.to)
    /\ i = LastStep.to

\* C27: the rules are tried in the order blank, header, title, chorus, numbered verse,
\* unnumbered verse, and the first that matches takes the line.  A header candidate that
\* passes the lookahead is taken as a header whatever else it holds: with a chorus keyword
\* in it, it opens a new song with no chorus and the cursor moves by 1.  A line with a
\* chorus keyword that is not taken as a header starts chorus collection when a song is
\* open; with no song open it is the title or falls through, the cursor moves by exactly
\* 1, and nothing is collected.
C27_FirstMatchWins ==
    /\ [](\A n \in DOMAIN hist :
            LET k == hist[n].at
                rule == hist[n].rule
            IN  /\ rule = "blank" <=> Ln(k) = <<>>
                /\ rule = "header" <=> (Candidate(k) /\ ~NumberedSequenceAt(k))
                /\ rule = "title" =>
                      ~hist[n].open /\ TitleLike(k) /\ \A m \in TitleSteps : m >= n
                /\ rule = "chorus" <=>
                      (IsChorusLine(Ln(k)) /\ hist[n].open
                        /\ ~(Candidate(k) /\ ~NumberedSequenceAt(k)))
                /\ rule = "numbered" <=>
                      (NumMatch(Ln(k)) /\ hist[n].open /\ ~IsChorusLine(Ln(k))
                        /\ ~(Candidate(k) /\ ~NumberedSequenceAt(k)))
                /\ rule = "unnumbered" =>
                      (hist[n].open /\ ~IsChorusLine(Ln(k)) /\ ~NumMatch(Ln(k)))
                /\ (IsChorusLine(Ln(k)) /\ ~hist[n].open) =>
                      (rule \in {"header", "title", "fallback"} /\ hist[n].to = k + 1))
    /\ [][/\ (Stepped /\ StepRule = "header") =>
               (i' = i + 1 /\ current_song'[1].chorus = <<>>)
          /\ (Stepped /\ current_song = None /\ IsChorusLine(Ln(i))) =>
               /\ i' = i + 1
               /\ current_song' # None =>
                     (current_song'[1].chorus = <<>> /\ current_song'[1].verses = <<>>)
               /\ structure'.songs = structure.songs]_vars
\* C27, reached: a line with a chorus keyword was passed over with no song open, and with
\* a song open the last iteration took a numbered line with a chorus keyword as a header
C27_Witness ==
    /\ hist # <<>>
    /\ ~hist[1].open /\ IsChorusLine(Ln(hist[1].at)) /\ hist[1].rule = "fallback"
    /\ LastStep.rule = "header" /\ LastStep.open /\ IsChorusLine(Ln(LastStep.at))
    /\ current_song[1].chorus = <<>>
    /\ i = LastStep.at + 1

\* C29: for every input text the detector of the modules and the detector of the
\* single-file program return the same title and the same list of songs.
C29_SameAsLegacy ==
    pc = "done" => structure = LegacyDetect(TextOf(lines))

(***************************************************************************)
(* Properties of clean_musical_notation.                                   *)
(***************************************************************************)
\* the symbol class as the specification lists it: colon, hyphen, em-dash, pipe, comma,
\* apostrophe, and the letters s, m, d, f, t, l, r, i in either case
ListedClass ==
    {":", "-", EMDASH, "|", ",", "'"}
    \cup {"s", "m", "d", "f", "t", "l", "r", "i"}
    \cup {"S", "M", "D", "F", "T", "L", "R", "I"}
Letters == Lower \cup Upper
HasLetterRun(s) == \E p \in 1..(Len(s) - 2) : \A q \in p..(p + 2) : s[q] \in Letters

\* C6: clean(clean(t)) = clean(t) for every text t.
C6_CleanIdempotent == cpass = 3 => ctext[3] = ctext[2]

\* C7: a non-blank line made only of characters of the symbol class gives no output line.
C7_SymbolLineRemoved ==
    \A n \in DOMAIN chist :
        (chist[n].pass = 1 /\ \A p \in DOMAIN Strip(chist[n].line) :
                                    Strip(chist[n].line)[p] \in ListedClass)
            => chist[n].fate # "kept"

\* C8: a line with no character of the symbol class and a run of at least 3 letters is
\* kept, changed only by trimming and by collapsing its inner whitespace.
C8_ProseLineKept ==
    \A n \in DOMAIN chist :
        (/\ chist[n].pass = 1
         /\ \A p \in DOMAIN chist[n].line : chist[n].line[p] \notin ListedClass
         /\ HasLetterRun(chist[n].line))
            => /\ chist[n].fate = "kept"
               /\ chist[n].out = Join(<<" ">>, SplitWords(chist[n].line))

\* the lines of the k-th text of ctext (the input, its cleaning, the cleaning of that)
OutLines(k) == IF ctext[k] = <<>> THEN <<>> ELSE SplitNL(ctext[k])
\* what the first pass did with the non-blank lines of the input, in the order it met them
FirstPass == SelectSeq(chist, LAMBDA e : e.pass = 1)
AsciiLetters == AsciiLower \cup AsciiUpper
HasAsciiRun(s) == \E p \in 1..(Len(s) - 2) : \A q \in p..(p + 2) : s[q] \in AsciiLetters

\* C14: every line of the output has trimmed length over 2 and a run of at least 3
\* letters, so no output line is blank; the output is the empty string when no input line
\* is kept.
C14_OutputLinesValid ==
    cpass >= 2 =>
        /\ \A n \in DOMAIN OutLines(2) :
              Len(Strip(OutLines(2)[n])) > 2 /\ HasAsciiRun(OutLines(2)[n])
        /\ (\A n \in DOMAIN FirstPass : FirstPass[n].fate # "kept") => ctext[2] = <<>>
\* C14, reached: the input had a line that the content guard rejected after the patterns
\* were applied, and a line that was kept
C14_Witness ==
    /\ cpass >= 2
    /\ \E n \in DOMAIN FirstPass : FirstPass[n].fate = "invalid"
    /\ \E n \in DOMAIN FirstPass : FirstPass[n].fate = "kept"
    /\ ctext[2] # <<>>

\* the non-blank lines of the input, in input order
NonBlankInput == SelectSeq(SplitNL(ctext[1]), LAMBDA l : Strip(l) # <<>>)
KeptFirstPass == SelectSeq(FirstPass, LAMBDA e : e.fate = "kept")
NoSpace(s) == SelectSeq(s, LAMBDA c : ~IsSpace(c))

\* C15: the loop meets each non-blank input line once, in input order; the output lines
\* are what the kept lines gave, one each, in that same order; an output line holds
\* characters of its own input line only, in their order, and no line break; so there are
\* at most as many output lines as non-blank input lines.
C15_OrderKept ==
    cpass >= 2 =>
        /\ [n \in 1..Len(FirstPass) |-> FirstPass[n].line] = NonBlankInput
        /\ OutLines(2) = [n \in 1..Len(KeptFirstPass) |-> KeptFirstPass[n].out]
        /\ \A n \in DOMAIN KeptFirstPass :
              /\ IsSubsequence(NoSpace(KeptFirstPass[n].out), KeptFirstPass[n].line)
              /\ \A p \in DOMAIN KeptFirstPass[n].out : KeptFirstPass[n].out[p] # NL
        /\ Len(OutLines(2)) <= Len(NonBlankInput)
\* C15, reached: two different lines were kept and a pattern changed one of them
C15_Witness ==
    /\ cpass >= 2
    /\ Len(OutLines(2)) = 2
    /\ OutLines(2)[1] # OutLines(2)[2]
    /\ \E n \in DOMAIN KeptFirstPass : KeptFirstPass[n].out # Strip(KeptFirstPass[n].line)

\* how many characters of a line are of the listed symbol class, and how many are not a
\* space
ListedCount(line) == Cardinality({p \in DOMAIN line : line[p] \in ListedClass})
NonSpaceCount(line) == Cardinality({p \in DOMAIN line : line[p] # " "})

\* C28: a non-blank line is discarded by the density check exactly when its characters of
\* the symbol class are more than 0.6 (3/5) of its non-space characters: at 3 of 5 it is
\* not discarded; a line discarded by the check is not given to pattern substitution.
C28_DiscardedAboveThreshold ==
    \A n \in DOMAIN chist :
        /\ chist[n].fate = "musical" <=>
              5 * ListedCount(Strip(chist[n].line)) > 3 * NonSpaceCount(Strip(chist[n].line))
        /\ chist[n].fate = "musical" => chist[n].out = <<>>

(***************************************************************************)
(* Properties of process_files.                                            *)
(***************************************************************************)
\* the recorded results of a file
ResultsOf(f) == {n \in DOMAIN extracted_books : extracted_books[n].original_file = f}
\* _process_single_file has recorded the result of the file at position k
Recorded(k) == k < fidx \/ (k = fidx /\ fpc = "completed")
IsSuccessStatus(st) == st = <<"S","U","C","C","E","S","S">>
IsErrorStatus(st) == Len(st) >= 7 /\ SubSeq(st, 1, 7) = <<"E","R","R","O","R",":"," ">>

\* C30: process_files records exactly one result for every PDF file it has processed and
\* none for the others, in the order of the files, whichever step failed; the status of a
\* result is either 'SUCCESS' or begins with 'ERROR: ', never both; the report counts a
\* result as successful or as failed accordingly, so that total = successful + failed =
\* the number of PDF files.
C30_OneResultPerFile ==
    /\ \A k \in DOMAIN files :
          Cardinality(ResultsOf(files[k])) = IF Recorded(k) THEN 1 ELSE 0
    /\ \A n \in DOMAIN extracted_books :
          /\ extracted_books[n].original_file = files[n]
          /\ IsSuccessStatus(extracted_books[n].status)
                # IsErrorStatus(extracted_books[n].status)
          /\ IsSuccessStatus(extracted_books[n].status)
                <=> extracted_books[n] \in Range(Successful(extracted_books))
          /\ IsErrorStatus(extracted_books[n].status)
                <=> extracted_books[n] \in Range(Failed(extracted_books))
    /\ report_data # <<>> =>
          /\ report_data[1].total = Len(files)
          /\ report_data[1].total = report_data[1].successful + report_data[1].failed
          /\ report_data[1].successful
                = Cardinality({n \in DOMAIN extracted_books :
                                  IsSuccessStatus(extracted_books[n].status)})
    /\ (fpc = "returned" /\ files # <<>>) => report_data # <<>>
\* C30, reached: the report is made after 3 files or more: one succeeded, one had no
\* text, and one failed with an exception whose message is 'SUCCESS'
C30_Witness ==
    /\ fpc = "returned" /\ report_data # <<>>
    /\ Len(files) >= 3
    /\ report_data[1].successful >= 1
    /\ report_data[1].failed >= 2
    /\ \E n \in DOMAIN extracted_books :
          extracted_books[n].status = <<"E","R","R","O","R",":"," ","N","o"," ","t","e","x","t"," ","e","x","t","r","a","c","t","e","d">>
    /\ \E n \in DOMAIN extracted_books :
          extracted_books[n].status = <<"E","R","R","O","R",":"," ","S","U","C","C","E","S","S">>

====
